---------------------------- MODULE Spec2Model ----------------------------
(* Context & memory subsystem of the ai-service (models/context.py,        *)
(* context/context_manager.py, context/vector_store.py,                    *)
(* services/openai_service.py) and the retry wrapper of the                 *)
(* preference-engine's RecommendationService.get_recommendations.          *)
(*                                                                         *)
(* Time is counted in whole hours.  Similarity scores and thresholds are   *)
(* counted in tenths (0.7 is 7).  Sender ids are sequences of characters   *)
(* so that the interaction-pair key f"{prev}-{sender}" is the real         *)
(* concatenation.  A message is a function from field names to values; a   *)
(* malformed message is one whose domain lacks a required field.  The      *)
(* manager awaits the embedding service and the vector store; each await   *)
(* is a step, and other steps (the cleanup sweep, the clock, another call) *)
(* may come in between.                                                    *)
EXTENDS Integers, Sequences, FiniteSets, TLC

(***************************************************************************)
(* Program constants                                                       *)
(***************************************************************************)
MAX_SHORT_TERM_MESSAGES == 50
MAX_CONTEXT_AGE_HOURS == 24
MAX_RETRIES == 3
OPENAI_MAX_RETRIES == 3
CACHE_RETRY_ATTEMPTS == 3
MAX_RECOMMENDATIONS == 10
STATS_RESET_AFTER == 10000
DAY_SECONDS == 86400
REC_MIN_CONFIDENCE_SCORE == [num |-> 7, den |-> 10]
SCORE_WEIGHTS ==
    [preference |-> [num |-> 6, den |-> 10], context |-> [num |-> 3, den |-> 10],
     diversity |-> [num |-> 1, den |-> 10]]
SIMILARITY_THRESHOLD == 7
MAX_RELEVANT_CONTEXTS == 5
DEFAULT_PREFERENCE_HISTORY_LIMIT == 100
MIN_CONFIDENCE_SCORE == 0
MAX_CONFIDENCE_SCORE == 10
MIN_SAMPLES == 5
MIN_SAMPLES_REQUIRED == 5
MAX_RETRY_ATTEMPTS == 3
PLANNER_MAX_RETRIES == 3
BATCH_SIZE == 100
MODEL_VERSION == 1

(***************************************************************************)
(* Bounds of the model                                                     *)
(***************************************************************************)
MaxEvents == 4
StreamLen == 52
MaxFaults == 1
MaxHistoryLimit == 3
MaxUpdates == 5
MaxProfileCalls == 5
MaxDynCalls == 4
MaxStored == 6
MaxStoredCalls == 2
MaxLearnCalls == 4
MaxRecCalls == 3
MaxHits == 2
MaxResets == 1
MaxNorm == 5
MaxSimCalls == 3
MaxStampEvents == 5
MaxEvictionEvents == 5
MaxPlanEvents == 5

Chats == {"c1", "c2"}
Procs == {"p1", "p2"}
a \prec b == a = "p1" /\ b = "p2"
Senders == {<<"a">>, <<"b">>}
MsgIds == {1, 2}
TickSteps == {MAX_CONTEXT_AGE_HOURS, MAX_CONTEXT_AGE_HOURS + 1}
RequiredFields == {"message_id", "sender_id", "content", "timestamp"}
SUPPORTED_RECOMMENDATION_TYPES == {"ai_agent", "chat_group", "content"}
PREFERENCE_TYPES ==
    {"chat", "ai_agent", "ui", "notification", "language", "accessibility",
     "privacy"}
SUPPORTED_PREFERENCE_TYPES == {"content", "interaction", "time", "location"}

VARIABLES active, vstore, now, tasks, next_oid, calls, env, embed_up,
          index_mode, swept, cleanup_task, closing, history_limit, pmodel,
          profile, delegate, pred_cache, rec_cache, cache_stats, error_count,
          model_version, profile_cls, scored, rec_returns, planner

vars == <<active, vstore, now, tasks, next_oid, calls, env, embed_up,
          index_mode, swept, cleanup_task, closing, history_limit, pmodel,
          profile, delegate, pred_cache, rec_cache, cache_stats, error_count,
          model_version, profile_cls, scored, rec_returns, planner>>

\* the preference-engine's services: the two Redis caches, the
\* recommendation service's counters, the learning service's model version,
\* the UserProfile class the services construct, the latest direct call of
\* calculate_recommendation_score, and what the callers of
\* get_recommendations got back, in the order the calls ended
svcVars == <<pred_cache, rec_cache, cache_stats, error_count, model_version,
             profile_cls, scored, rec_returns, planner>>

\* the manager's lifecycle and the preference-engine's objects
restVars == <<cleanup_task, closing, history_limit, pmodel, profile, delegate,
              svcVars>>

(***************************************************************************)
(* Helpers on functions and sequences                                      *)
(***************************************************************************)
EmptyMap == [k \in {} |-> 0]

MapPut(f, k, v) == [x \in (DOMAIN f) \cup {k} |-> IF x = k THEN v ELSE f[x]]

MapGet(f, k, d) == IF k \in DOMAIN f THEN f[k] ELSE d

Restrict(f, S) == [x \in (DOMAIN f) \cap S |-> f[x]]

RECURSIVE SumMap(_)
SumMap(f) ==
    IF DOMAIN f = {} THEN 0
    ELSE LET k == CHOOSE x \in DOMAIN f : TRUE
         IN f[k] + SumMap(Restrict(f, (DOMAIN f) \ {k}))

RECURSIVE SumSeq(_)
SumSeq(q) == IF q = <<>> THEN 0 ELSE Head(q) + SumSeq(Tail(q))

\* a quotient num / den, kept exact
Frac(num, den) == [num |-> num, den |-> den]

\* arithmetic and order on quotients with positive denominators
RAdd(a, b) == Frac(a.num * b.den + b.num * a.den, a.den * b.den)

RSub(a, b) == Frac(a.num * b.den - b.num * a.den, a.den * b.den)

RMul(a, b) == Frac(a.num * b.num, a.den * b.den)

RLeq(a, b) == a.num * b.den <= b.num * a.den

REq(a, b) == a.num * b.den = b.num * a.den

RMin(a, b) == IF RLeq(a, b) THEN a ELSE b

RMax(a, b) == IF RLeq(a, b) THEN b ELSE a

RECURSIVE RSum(_)
RSum(q) == IF q = <<>> THEN Frac(0, 1) ELSE RAdd(Head(q), RSum(Tail(q)))

\* sum(q) / len(q) for a non-empty list
RMean(q) == LET t == RSum(q) IN Frac(t.num, t.den * Len(q))

(***************************************************************************)
(* models/context.py : Context                                             *)
(***************************************************************************)
\* Context.__init__: empty structures, last_updated = utcnow().  oid is the
\* identity of the Python object; log is the history of messages accepted
\* by add_message (a history field, not read by the program).
NewContext(oid, t) ==
    [oid |-> oid,
     short_term_memory |-> <<>>,
     embeddings |-> EmptyMap,
     group_dynamics |-> [participation_metrics |-> EmptyMap,
                         response_times |-> EmptyMap,
                         interaction_pairs |-> EmptyMap,
                         topic_flow |-> <<>>],
     last_updated |-> t,
     log |-> <<>>]

\* the required-fields test of add_message
HasRequiredFields(message) == RequiredFields \subseteq DOMAIN message

\* (variant: the pop happens one message early)
AppendFIFOEarly(mem, message) ==
    LET m1 == Append(mem, message)
    IN IF Len(m1) >= MAX_SHORT_TERM_MESSAGES THEN Tail(m1) ELSE m1

\* append, then pop(0) when the list is longer than MAX_SHORT_TERM_MESSAGES
AppendFIFO(mem, message) ==
    LET m1 == Append(mem, message)
    IN IF Len(m1) > MAX_SHORT_TERM_MESSAGES THEN Tail(m1) ELSE m1

\* f"{prev_message['sender_id']}-{sender_id}"
InteractionKey(prev, sender) == prev \o <<"-">> \o sender

\* the group-dynamics part of add_message; mem is the memory after the append
UpdateDynamics(gd, mem, message) ==
    LET sender == message["sender_id"]
        pm == MapPut(gd.participation_metrics, sender,
                     MapGet(gd.participation_metrics, sender, 0) + 1)
    IN IF Len(mem) > 1
       THEN LET prev == mem[Len(mem) - 1]
                rt == message["timestamp"] - prev["timestamp"]
                key == InteractionKey(prev["sender_id"], sender)
            IN [gd EXCEPT
                  !.participation_metrics = pm,
                  !.response_times =
                      MapPut(gd.response_times, sender,
                             Append(MapGet(gd.response_times, sender, <<>>), rt)),
                  !.interaction_pairs =
                      MapPut(gd.interaction_pairs, key,
                             MapGet(gd.interaction_pairs, key, 0) + 1)]
       ELSE [gd EXCEPT !.participation_metrics = pm]

\* Context.add_message for a message that has the required fields
\* a 'timestamp' that datetime.fromisoformat accepts; a string it rejects is
\* written as a negative number
Parses(timestamp) == timestamp >= 0

\* add_message raises after its required-fields check: ValueError from
\* fromisoformat for the message's own timestamp or, for a reply, for the
\* timestamp of the message before it
AddMessageError(ctx, message) ==
    LET mem == AppendFIFO(ctx.short_term_memory, message)
    IN IF ~Parses(message["timestamp"]) THEN "ValueError"
       ELSE IF Len(mem) > 1 /\ ~Parses(mem[Len(mem) - 1]["timestamp"])
            THEN "ValueError"
       ELSE "none"

\* what add_message leaves behind when it raises there: the message is in
\* short_term_memory; the sender's participation count went up if the
\* message's own timestamp was read; last_updated is not touched
AddMessagePartial(ctx, message) ==
    LET mem == AppendFIFO(ctx.short_term_memory, message)
        sender == message["sender_id"]
        pm == ctx.group_dynamics.participation_metrics
    IN [ctx EXCEPT
          !.short_term_memory = mem,
          !.group_dynamics.participation_metrics =
              IF Parses(message["timestamp"])
              THEN MapPut(pm, sender, MapGet(pm, sender, 0) + 1)
              ELSE pm]

AddMessage(ctx, message, t) ==
    LET mem == AppendFIFO(ctx.short_term_memory, message)
    IN [ctx EXCEPT
          !.short_term_memory = mem,
          !.group_dynamics = UpdateDynamics(ctx.group_dynamics, mem, message),
          !.last_updated = t,
          !.log = Append(ctx.log, message)]

MessageIds(mem) == {mem[i]["message_id"] : i \in 1..Len(mem)}

\* Context.update_embeddings (the embedding has EMBEDDING_DIMENSION entries:
\* generate_embedding returns no other)
UpdateEmbeddings(ctx, message_id, embedding, t) ==
    [ctx EXCEPT
       !.embeddings = Restrict(MapPut(ctx.embeddings, message_id, embedding),
                               MessageIds(ctx.short_term_memory)),
       !.last_updated = t]

\* (variant: stale from exactly MAX_CONTEXT_AGE_HOURS on)
IsStaleInclusive(ctx, t) == t - ctx.last_updated >= MAX_CONTEXT_AGE_HOURS

\* Context.is_stale at time t
IsStale(ctx, t) == t - ctx.last_updated > MAX_CONTEXT_AGE_HOURS


(***************************************************************************)
(* External collaborators                                                  *)
(***************************************************************************)
\* The embedding model is opaque: texts map to abstract vectors, and the
\* inner-product score of two vectors is a fixed table (in tenths).
Embed(text) ==
    CASE text = "hi" -> 1
      [] text = "hello" -> 2
      [] OTHER -> 3

Score(q, v) ==
    LET d == IF q >= v THEN q - v ELSE v - q
    IN CASE d = 0 -> 10
         [] d = 1 -> 8
         [] OTHER -> 5

\* generate_embedding raises ValueError on an empty text, and whatever the
\* provider raises while it is unreachable; both inside its own retry loop.
EmbedAttemptFails(text) == text = "" \/ ~embed_up

(***************************************************************************)
(* context/vector_store.py : search_similar                                *)
(***************************************************************************)
\* rows of the collection that pass expr chat_id == "<chat_id>"
ChatRows(rows, chat_id) == {i \in 1..Len(rows) : rows[i].chat_id = chat_id}

\* the index's order: best score first, ties in insertion order
Better(rows, q, i, j) ==
    \/ Score(q, rows[i].embedding) > Score(q, rows[j].embedding)
    \/ /\ Score(q, rows[i].embedding) = Score(q, rows[j].embedding)
       /\ i < j

RECURSIVE TopK(_, _, _, _)
TopK(rows, q, S, k) ==
    IF k <= 0 \/ S = {} THEN <<>>
    ELSE LET b == CHOOSE i \in S : \A j \in S \ {i} : Better(rows, q, i, j)
         IN <<b>> \o TopK(rows, q, S \ {b}, k - 1)

\* _collection.search(..., limit=limit, expr=...) : the hits, best first
CollectionSearch(rows, q, chat_id, limit) ==
    LET top == TopK(rows, q, ChatRows(rows, chat_id), limit)
    IN [n \in 1..Len(top) |->
          [message_id |-> rows[top[n]].message_id,
           chat_id |-> rows[top[n]].chat_id,
           score |-> Score(q, rows[top[n]].embedding)]]

\* (variant: the filter uses the default threshold, not the caller's)
KeepHitDefault(hit, score_threshold) == hit.score >= SIMILARITY_THRESHOLD

\* the hit filter of search_similar
KeepHit(hit, score_threshold) == hit.score >= score_threshold

RECURSIVE FilterHits(_, _)
FilterHits(hits, score_threshold) ==
    IF hits = <<>> THEN <<>>
    ELSE IF KeepHit(Head(hits), score_threshold)
         THEN <<Head(hits)>> \o FilterHits(Tail(hits), score_threshold)
         ELSE FilterHits(Tail(hits), score_threshold)

SearchSimilar(rows, q, chat_id, limit, score_threshold) ==
    FilterHits(CollectionSearch(rows, q, chat_id, limit), score_threshold)

(***************************************************************************)
(* context/context_manager.py : ContextManager                             *)
(***************************************************************************)
OptNone == [none |-> TRUE]

\* the (query, options) pairs of the callers
RelInputs ==
    {<<"hi", EmptyMap>>, <<"hi", [limit |-> 1]>>,
     <<"greeting", [threshold |-> 9]>>, <<"", EmptyMap>>, <<"hi", OptNone>>}

\* options.get(key, default)
OptionsGet(options, key, default) == MapGet(options, key, default)

NoMessage == EmptyMap

IdleTask ==
    [pc |-> "idle", op |-> "none", chat_id |-> "c1", message |-> NoMessage,
     query |-> "", options |-> EmptyMap, rtype |-> "content", ctx |-> 0,
     attempt |-> 0, inner |-> 0, body_runs |-> 0, embed_calls |-> 0,
     store_calls |-> 0, search_calls |-> 0, result |-> <<>>,
     error |-> "none", cause |-> "none", pre_len |-> 0, had_ctx |-> FALSE,
     user_id |-> "", cache_reads |-> 0, cache_writes |-> 0,
     refresh_cache |-> FALSE, seen |-> 0, patterns |-> EmptyMap,
     lock |-> 0]

\* (variant: a new context replaces the one the map holds)
GetOrCreateFresh(map, chat_id, oid, t) ==
    MapPut(map, chat_id, NewContext(oid, t))

\* _get_or_create_context: the map afterwards
GetOrCreate(map, chat_id, oid, t) ==
    IF chat_id \in DOMAIN map THEN map ELSE MapPut(map, chat_id, NewContext(oid, t))

\* (variant: a match without a message in the memory is returned as it is)
RECURSIVE JoinMatchesKeepAll(_, _)
JoinMatchesKeepAll(similar, mem) ==
    IF similar = <<>> THEN <<>>
    ELSE LET s == Head(similar)
             idx == {i \in 1..Len(mem) : mem[i]["message_id"] = s.message_id}
             rest == JoinMatchesKeepAll(Tail(similar), mem)
         IN IF idx = {}
            THEN <<[message_id |-> s.message_id, relevance_score |-> s.score]>>
                 \o rest
            ELSE LET i == CHOOSE x \in idx : \A y \in idx : x <= y
                 IN <<MapPut(mem[i], "relevance_score", s.score)>> \o rest

\* (variant: each joined message is put in front of the earlier ones)
RECURSIVE JoinMatchesReversed(_, _)
JoinMatchesReversed(similar, mem) ==
    IF similar = <<>> THEN <<>>
    ELSE LET s == Head(similar)
             idx == {i \in 1..Len(mem) : mem[i]["message_id"] = s.message_id}
             rest == JoinMatchesReversed(Tail(similar), mem)
         IN IF idx = {} THEN rest
            ELSE LET i == CHOOSE x \in idx : \A y \in idx : x <= y
                 IN rest \o <<MapPut(mem[i], "relevance_score", s.score)>>

\* the join of get_relevant_context: the first message of the memory with
\* the match's id, with the match's score attached
RECURSIVE JoinMatches(_, _)
JoinMatches(similar, mem) ==
    IF similar = <<>> THEN <<>>
    ELSE LET s == Head(similar)
             idx == {i \in 1..Len(mem) : mem[i]["message_id"] = s.message_id}
             rest == JoinMatches(Tail(similar), mem)
         IN IF idx = {} THEN rest
            ELSE LET i == CHOOSE x \in idx : \A y \in idx : x <= y
                 IN <<MapPut(mem[i], "relevance_score", s.score)>> \o rest

\* the retry predicate of add_message_to_context's decorator: the tuple it
\* passes as retry_if_exception_type
AddRetries(exc) == exc \in {"ConnectionError", "TimeoutError"}

\* get_relevant_context's decorator names no predicate: tenacity's default
\* retries on every exception
RelRetries(exc) == TRUE

\* get_recommendations' decorator: the default predicate again
RecRetries(exc) == TRUE

\* tenacity after a failed attempt: the exception passes through when the
\* predicate rejects it; otherwise another attempt starts from `start`, or
\* RetryError is raised once `max` attempts were made (the decorators set no
\* reraise).  cause is the exception the attempt raised.
AfterFailure(task, exc, retries, max, start) ==
    IF ~retries THEN [task EXCEPT !.pc = "done", !.error = exc, !.cause = exc]
    ELSE IF task.attempt >= max
         THEN [task EXCEPT !.pc = "done", !.error = "RetryError",
                           !.cause = exc]
         ELSE [task EXCEPT !.pc = start, !.attempt = task.attempt + 1,
                           !.inner = 0, !.cause = exc]

Free(p) == tasks[p].pc \in {"idle", "done"}

\* asyncio tasks have no names: a new call takes the first free slot
Slot(p) == Free(p) /\ \A q \in Procs : (Free(q) => ~(q \prec p))

\* a caller invokes add_message_to_context(chat_id, message)
CallAdd(p, chat_id, message) ==
    /\ Slot(p)
    /\ tasks' = [tasks EXCEPT ![p] =
          [IdleTask EXCEPT !.pc = "add_body", !.op = "add",
             !.chat_id = chat_id, !.message = message, !.attempt = 1,
             !.pre_len = IF chat_id \in DOMAIN active
                         THEN Len(active[chat_id].short_term_memory) ELSE 0]]
    /\ calls' = calls + 1
    /\ UNCHANGED <<active, vstore, now, next_oid, env, embed_up, index_mode,
                   swept>>
    /\ UNCHANGED restVars

\* one run of the body up to its first await: _get_or_create_context, then
\* context.add_message, which raises ValueError before any change when a
\* required field is missing
AddBody(p) ==
    LET t == tasks[p]
        map == GetOrCreate(active, t.chat_id, next_oid, now)
        ctx == map[t.chat_id]
    IN /\ t.pc = "add_body"
       /\ next_oid' = IF t.chat_id \in DOMAIN active THEN next_oid ELSE next_oid + 1
       /\ IF HasRequiredFields(t.message)
             /\ AddMessageError(ctx, t.message) # "none"
          THEN /\ active' = [map EXCEPT ![t.chat_id] =
                                AddMessagePartial(ctx, t.message)]
               /\ tasks' = [tasks EXCEPT ![p] =
                     AfterFailure([t EXCEPT !.body_runs = t.body_runs + 1],
                                  "ValueError", AddRetries("ValueError"),
                                  MAX_RETRIES, "add_body")]
          ELSE IF HasRequiredFields(t.message)
          THEN /\ active' = [map EXCEPT ![t.chat_id] = AddMessage(ctx, t.message, now)]
               /\ tasks' = [tasks EXCEPT ![p] =
                     [t EXCEPT !.pc = "add_embed", !.ctx = ctx.oid,
                               !.body_runs = t.body_runs + 1]]
          ELSE /\ active' = map
               /\ tasks' = [tasks EXCEPT ![p] =
                     AfterFailure([t EXCEPT !.body_runs = t.body_runs + 1],
                                  "ValueError", AddRetries("ValueError"),
                                  MAX_RETRIES, "add_body")]
       /\ UNCHANGED <<vstore, now, calls, env, embed_up, index_mode, swept>>
       /\ UNCHANGED restVars

\* one attempt of generate_embedding(message['content']) inside its own
\* retry loop (OPENAI_MAX_RETRIES attempts, any exception); the loop ends in
\* RetryError, which add_message_to_context's predicate does not retry
AddEmbed(p) ==
    LET t == tasks[p]
        t1 == [t EXCEPT !.inner = t.inner + 1, !.embed_calls = t.embed_calls + 1]
    IN /\ t.pc = "add_embed"
       /\ tasks' = [tasks EXCEPT ![p] =
             IF ~EmbedAttemptFails(t.message["content"])
             THEN [t1 EXCEPT !.pc = "add_store"]
             ELSE IF t1.inner < OPENAI_MAX_RETRIES THEN t1
                  ELSE AfterFailure(t1, "RetryError", AddRetries("RetryError"),
                                    MAX_RETRIES, "add_body")]
       /\ UNCHANGED <<active, vstore, now, next_oid, calls, env, embed_up,
                      index_mode, swept>>
       /\ UNCHANGED restVars

\* the context object a task holds, if the map still holds that object
Holds(t) == t.chat_id \in DOMAIN active /\ active[t.chat_id].oid = t.ctx

\* await store_embedding(...), then context.update_embeddings and the return.
\* The store inserts the row and returns True ("ok"), swallows its own
\* exception and returns False ("false"), or lets ConnectionError out
\* ("raise").  update_embeddings acts on the object the task holds.
AddStore(p) ==
    LET t == tasks[p]
        t1 == [t EXCEPT !.store_calls = t.store_calls + 1]
        vec == Embed(t.message["content"])
    IN /\ t.pc = "add_store"
       /\ IF index_mode = "raise"
          THEN /\ tasks' = [tasks EXCEPT ![p] =
                     AfterFailure(t1, "ConnectionError",
                                  AddRetries("ConnectionError"),
                                  MAX_RETRIES, "add_body")]
               /\ UNCHANGED <<active, vstore, swept>>
          ELSE /\ vstore' = IF index_mode = "ok"
                            THEN Append(vstore,
                                   [message_id |-> t.message["message_id"],
                                    chat_id |-> t.chat_id, embedding |-> vec])
                            ELSE vstore
               /\ active' = IF Holds(t)
                            THEN [active EXCEPT ![t.chat_id] =
                                    UpdateEmbeddings(@, t.message["message_id"],
                                                     vec, now)]
                            ELSE active
               /\ tasks' = [tasks EXCEPT ![p] = [t1 EXCEPT !.pc = "done"]]
       /\ UNCHANGED <<now, next_oid, calls, env, embed_up, index_mode, swept>>
       /\ UNCHANGED restVars

\* a caller invokes get_relevant_context(chat_id, query, options)
CallRel(p, chat_id, query, options) ==
    /\ Slot(p)
    /\ tasks' = [tasks EXCEPT ![p] =
          [IdleTask EXCEPT !.pc = "rel_embed", !.op = "rel",
             !.chat_id = chat_id, !.query = query, !.options = options,
             !.attempt = 1, !.body_runs = 1,
             !.had_ctx = chat_id \in DOMAIN active]]
    /\ calls' = calls + 1
    /\ UNCHANGED <<active, vstore, now, next_oid, env, embed_up, index_mode,
                   swept>>
    /\ UNCHANGED restVars

\* one attempt of generate_embedding(query); on success the arguments of
\* search_similar are evaluated, and options.get raises AttributeError when
\* options is None
RelEmbed(p) ==
    LET t == tasks[p]
        t1 == [t EXCEPT !.inner = t.inner + 1, !.embed_calls = t.embed_calls + 1]
    IN /\ t.pc = "rel_embed"
       /\ tasks' = [tasks EXCEPT ![p] =
             IF ~EmbedAttemptFails(t.query)
             THEN IF t.options = OptNone
                  THEN LET f == AfterFailure(t1, "AttributeError",
                                  RelRetries("AttributeError"),
                                  MAX_RETRIES, "rel_embed")
                       IN IF f.pc = "done" THEN f
                          ELSE [f EXCEPT !.body_runs = t1.body_runs + 1]
                  ELSE [t1 EXCEPT !.pc = "rel_search"]
             ELSE IF t1.inner < OPENAI_MAX_RETRIES THEN t1
                  ELSE LET f == AfterFailure(t1, "RetryError",
                                  RelRetries("RetryError"),
                                  MAX_RETRIES, "rel_embed")
                       IN IF f.pc = "done" THEN f
                          ELSE [f EXCEPT !.body_runs = t1.body_runs + 1]]
       /\ UNCHANGED <<active, vstore, now, next_oid, calls, env, embed_up,
                      index_mode, swept>>
       /\ UNCHANGED restVars

\* await search_similar(...), then _get_or_create_context and the join.
\* The search returns its hits ("ok"), swallows its own exception and
\* returns [] ("false"), or lets TimeoutError out ("raise").
RelSearch(p) ==
    LET t == tasks[p]
        t1 == [t EXCEPT !.search_calls = t.search_calls + 1]
        limit == OptionsGet(t.options, "limit", MAX_RELEVANT_CONTEXTS)
        threshold == OptionsGet(t.options, "threshold", SIMILARITY_THRESHOLD)
        similar == IF index_mode = "ok"
                   THEN SearchSimilar(vstore, Embed(t.query), t.chat_id,
                                      limit, threshold)
                   ELSE <<>>
        map == GetOrCreate(active, t.chat_id, next_oid, now)
    IN /\ t.pc = "rel_search"
       /\ IF index_mode = "raise"
          THEN /\ tasks' = [tasks EXCEPT ![p] =
                     LET f == AfterFailure(t1, "TimeoutError",
                                  RelRetries("TimeoutError"),
                                  MAX_RETRIES, "rel_embed")
                     IN IF f.pc = "done" THEN f
                        ELSE [f EXCEPT !.body_runs = t1.body_runs + 1]]
               /\ UNCHANGED <<active, next_oid, swept>>
          ELSE /\ active' = map
               /\ next_oid' = IF t.chat_id \in DOMAIN active
                              THEN next_oid ELSE next_oid + 1
               /\ tasks' = [tasks EXCEPT ![p] =
                     [t1 EXCEPT !.pc = "done",
                        !.result = JoinMatches(similar,
                                      map[t.chat_id].short_term_memory)]]
       /\ UNCHANGED <<vstore, now, calls, env, embed_up, index_mode, swept>>
       /\ UNCHANGED restVars

\* sum(times) / len(times) for every user with a non-empty list
AvgResponseTimes(gd) ==
    [u \in {x \in DOMAIN gd.response_times : gd.response_times[x] # <<>>} |->
        Frac(SumSeq(gd.response_times[u]), Len(gd.response_times[u]))]

\* (variant: the counts are divided by the number of messages)
InteractionStrengthPerMessage(gd) ==
    LET total_messages == SumMap(gd.participation_metrics)
    IN IF SumMap(gd.interaction_pairs) > 0
       THEN [k \in DOMAIN gd.interaction_pairs |->
                Frac(gd.interaction_pairs[k], total_messages)]
       ELSE EmptyMap

\* count / total_interactions for every pair, {} without interactions
InteractionStrength(gd) ==
    LET total_interactions == SumMap(gd.interaction_pairs)
    IN IF total_interactions > 0
       THEN [k \in DOMAIN gd.interaction_pairs |->
                Frac(gd.interaction_pairs[k], total_interactions)]
       ELSE EmptyMap

\* the dict get_group_dynamics builds from a context's group_dynamics
Dynamics(gd) ==
    [participation_metrics |-> gd.participation_metrics,
     avg_response_times |-> AvgResponseTimes(gd),
     interaction_strength |-> InteractionStrength(gd),
     active_users |-> Cardinality(DOMAIN gd.participation_metrics),
     total_messages |-> SumMap(gd.participation_metrics)]

\* (variant: the context is looked up in the map, without creating it)
GetGroupDynamicsStrict(p, chat_id) ==
    /\ Slot(p)
    /\ tasks' = [tasks EXCEPT ![p] =
          IF chat_id \in DOMAIN active
          THEN [IdleTask EXCEPT !.pc = "done", !.op = "dyn", !.chat_id = chat_id,
                  !.attempt = 1, !.body_runs = 1, !.had_ctx = TRUE,
                  !.result = <<Dynamics(active[chat_id].group_dynamics)>>]
          ELSE [IdleTask EXCEPT !.pc = "done", !.op = "dyn", !.chat_id = chat_id,
                  !.attempt = 1, !.body_runs = 1, !.error = "KeyError",
                  !.cause = "KeyError"]]
    /\ calls' = calls + 1
    /\ UNCHANGED <<active, next_oid, vstore, now, env, embed_up, index_mode,
                   swept>>
    /\ UNCHANGED restVars

\* get_group_dynamics(chat_id): no await, one step
GetGroupDynamics(p, chat_id) ==
    LET map == GetOrCreate(active, chat_id, next_oid, now)
    IN /\ Slot(p)
       /\ active' = map
       /\ next_oid' = IF chat_id \in DOMAIN active THEN next_oid ELSE next_oid + 1
       /\ tasks' = [tasks EXCEPT ![p] =
             [IdleTask EXCEPT !.pc = "done", !.op = "dyn", !.chat_id = chat_id,
                !.attempt = 1, !.body_runs = 1,
                !.had_ctx = chat_id \in DOMAIN active,
                !.result = <<Dynamics(map[chat_id].group_dynamics)>>]]
       /\ calls' = calls + 1
       /\ UNCHANGED <<vstore, now, env, embed_up, index_mode, swept>>
       /\ UNCHANGED restVars

\* (variant: the sweep deletes the contexts that are not stale)
SweepInverted ==
    /\ cleanup_task = "sleeping"
    /\ active' = Restrict(active, {c \in DOMAIN active : IsStale(active[c], now)})
    /\ swept' = [ages |-> [c \in DOMAIN active |-> now - active[c].last_updated],
                 kept |-> DOMAIN active']
    /\ env' = env + 1
    /\ UNCHANGED <<vstore, now, tasks, next_oid, calls, embed_up, index_mode>>
    /\ UNCHANGED restVars

\* one sweep of _periodic_cleanup, by the cleanup task when its sleep ends:
\* no await between the scan and the deletes.  swept records the sweep: each
\* context's idle time before it, the keys after.
SweepStep ==
    /\ cleanup_task = "sleeping"
    /\ active' = Restrict(active, {c \in DOMAIN active : ~IsStale(active[c], now)})
    /\ swept' = [ages |-> [c \in DOMAIN active |-> now - active[c].last_updated],
                 kept |-> DOMAIN active']
    /\ UNCHANGED <<vstore, now, tasks, next_oid, calls, embed_up, index_mode>>
    /\ UNCHANGED restVars

\* a sweep, counted as an event of the run
Sweep == SweepStep /\ env' = env + 1

\* the sweep the loop makes every hour whatever else happens
ScheduledSweep == SweepStep /\ UNCHANGED env

\* (variant: an exception of the sweep ends the cleanup task)
SweepRaisesAndEnds ==
    /\ cleanup_task = "sleeping"
    /\ cleanup_task' = "done"
    /\ env' = env + 1
    /\ UNCHANGED <<active, vstore, now, tasks, next_oid, calls, embed_up,
                   index_mode, swept, closing, history_limit, pmodel, profile,
                   delegate>>
    /\ UNCHANGED svcVars

\* an iteration of _periodic_cleanup whose body raises before any delete (in
\* is_stale or in the latency timer): `except Exception` logs the error
\* inside `while True`, and the task goes back to its sleep
SweepRaises ==
    /\ cleanup_task = "sleeping"
    /\ cleanup_task' = "sleeping"
    /\ env' = env + 1
    /\ UNCHANGED <<active, vstore, now, tasks, next_oid, calls, embed_up,
                   index_mode, swept, closing, history_limit, pmodel, profile,
                   delegate>>
    /\ UNCHANGED svcVars

\* time passes
Tick(d) ==
    /\ now' = now + d
    /\ env' = env + 1
    /\ UNCHANGED <<active, vstore, tasks, next_oid, calls, embed_up,
                   index_mode, swept>>
    /\ UNCHANGED restVars

\* the embedding provider goes down or comes back
SetProvider(up) ==
    /\ embed_up # up
    /\ embed_up' = up
    /\ env' = env + 1
    /\ UNCHANGED <<active, vstore, now, tasks, next_oid, calls, index_mode,
                   swept>>
    /\ UNCHANGED restVars

\* the vector index changes how its calls end: "ok" and "false" are the two
\* returns of store_embedding and search_similar, "raise" is the
\* ConnectionError / TimeoutError the manager's decorators and tests expect
SetIndex(mode) ==
    /\ index_mode # mode
    /\ index_mode' = mode
    /\ env' = env + 1
    /\ UNCHANGED <<active, vstore, now, tasks, next_oid, calls, embed_up,
                   swept>>
    /\ UNCHANGED restVars

\* the caller's task is cancelled while add_message_to_context is suspended:
\* in generate_embedding, in store_embedding, or in the wait before another
\* attempt.  CancelledError is no Exception: it passes the except clause
\* and the retry predicate.
CancelAdd(p) ==
    LET t == tasks[p]
    IN /\ t.op = "add"
       /\ \/ t.pc \in {"add_embed", "add_store"}
          \/ t.pc = "add_body" /\ t.attempt > 1
       /\ tasks' = [tasks EXCEPT ![p] =
             [t EXCEPT !.pc = "done", !.error = "CancelledError",
                       !.cause = "CancelledError"]]
       /\ env' = env + 1
       /\ UNCHANGED <<active, vstore, now, next_oid, calls, embed_up,
                      index_mode, swept>>
       /\ UNCHANGED restVars

\* close() up to its await: the cleanup task is asked to cancel
CloseCancel ==
    /\ closing = "no"
    /\ closing' = "waiting"
    /\ cleanup_task' = IF cleanup_task = "sleeping" THEN "cancelling"
                       ELSE cleanup_task
    /\ env' = env + 1
    /\ UNCHANGED <<active, vstore, now, tasks, next_oid, calls, embed_up,
                   index_mode, swept, history_limit, pmodel, profile, delegate>>
    /\ UNCHANGED svcVars

\* the cleanup task resumes in asyncio.sleep with CancelledError, which its
\* `except Exception` does not catch: the loop ends
CleanupCancelled ==
    /\ cleanup_task = "cancelling"
    /\ cleanup_task' = "done"
    /\ UNCHANGED <<active, vstore, now, tasks, next_oid, calls, env, embed_up,
                   index_mode, swept, closing, history_limit, pmodel, profile,
                   delegate>>
    /\ UNCHANGED svcVars

\* (variant: close() does not await the cleanup task)
CloseFinishEarly ==
    /\ closing = "waiting"
    /\ closing' = "closed"
    /\ active' = EmptyMap
    /\ UNCHANGED <<vstore, now, tasks, next_oid, calls, env, embed_up,
                   index_mode, swept, cleanup_task, history_limit, pmodel,
                   profile, delegate>>
    /\ UNCHANGED svcVars

\* close() after `await self._cleanup_task`: the map is cleared
CloseFinish ==
    /\ closing = "waiting"
    /\ cleanup_task = "done"
    /\ closing' = "closed"
    /\ active' = EmptyMap
    /\ UNCHANGED <<vstore, now, tasks, next_oid, calls, env, embed_up,
                   index_mode, swept, cleanup_task, history_limit, pmodel,
                   profile, delegate>>
    /\ UNCHANGED svcVars

(***************************************************************************)
(* preference-engine recommendation_service.py : get_recommendations       *)
(***************************************************************************)
\* (variant: the counters are cleared as soon as they add up to 10,000)
UpdateCacheStatsAtLimit(stats, result) ==
    LET s1 == IF result = "hit" THEN [stats EXCEPT !.hits = stats.hits + 1]
              ELSE [stats EXCEPT !.misses = stats.misses + 1]
        total == s1.hits + s1.misses
    IN IF total >= STATS_RESET_AFTER
       THEN [hits |-> 0, misses |-> 0, resets |-> stats.resets + 1]
       ELSE s1

\* _update_cache_stats(result): the counter of the result goes up by one and
\* both are cleared once they add up to more than 10,000.  resets stands for
\* last_reset: it changes exactly when the dict is replaced
UpdateCacheStats(stats, result) ==
    LET s1 == IF result = "hit" THEN [stats EXCEPT !.hits = stats.hits + 1]
              ELSE [stats EXCEPT !.misses = stats.misses + 1]
        total == s1.hits + s1.misses
    IN IF total > 0 /\ total > STATS_RESET_AFTER
       THEN [hits |-> 0, misses |-> 0, resets |-> stats.resets + 1]
       ELSE s1

\* a direct call of _update_cache_stats(result)
CallUpdateCacheStats(result) ==
    /\ cache_stats' = UpdateCacheStats(cache_stats, result)
    /\ UNCHANGED <<active, vstore, now, tasks, next_oid, calls, env, embed_up,
                   index_mode, swept, cleanup_task, closing, history_limit,
                   pmodel, profile, delegate, pred_cache, rec_cache,
                   error_count, model_version, profile_cls, scored,
                   rec_returns, planner>>

\* the key of a recommendation in the cache: rec_{user_id}:{type}
RecKey(user_id, rtype) == <<"rec", user_id, rtype>>

\* a caller invokes get_recommendations(user_id, recommendation_type,
\* refresh_cache=...); seen is the number of calls that had ended by then
CallRec(p, user_id, rtype, refresh_cache) ==
    /\ Slot(p)
    /\ tasks' = [tasks EXCEPT ![p] =
          [IdleTask EXCEPT !.pc = "rec_body", !.op = "rec", !.rtype = rtype,
                           !.user_id = user_id,
                           !.refresh_cache = refresh_cache,
                           !.seen = Len(rec_returns), !.attempt = 1]]
    /\ calls' = calls + 1
    /\ UNCHANGED <<active, vstore, now, next_oid, env, embed_up, index_mode,
                   swept>>
    /\ UNCHANGED restVars

\* the exception one run of get_recommendations' try block ends with: the
\* type check raises ValueError; without refresh_cache the body looks up
\* self._get_from_cache, which the class does not define (AttributeError);
\* with refresh_cache it calls get_history on the class PreferenceModel with
\* keyword arguments only, so the method lacks its self (TypeError)
RecError(rtype, refresh_cache) ==
    IF rtype \notin SUPPORTED_RECOMMENDATION_TYPES THEN "ValueError"
    ELSE IF ~refresh_cache THEN "AttributeError"
    ELSE "TypeError"

\* what the caller of a call that ended holds
RecReturn(task) ==
    [user_id |-> task.user_id, rtype |-> task.rtype,
     refresh_cache |-> task.refresh_cache, error |-> task.error,
     result |-> task.result, body_runs |-> task.body_runs,
     seen |-> task.seen,
     cache_reads |-> task.cache_reads, cache_writes |-> task.cache_writes]

\* one run of the body.  Every run ends in the except block, before the
\* first await that suspends: the miss is counted when the cache lookup was
\* skipped, error_count goes up, and the exception is raised again to the
\* decorator.  Lines 166-222 (predictions, candidates, scoring, the cache
\* write) are never reached.
RecBody(p) ==
    LET t == tasks[p]
        t1 == [t EXCEPT !.body_runs = t.body_runs + 1]
        exc == RecError(t.rtype, t.refresh_cache)
        t2 == AfterFailure(t1, exc, RecRetries(exc), CACHE_RETRY_ATTEMPTS,
                           "rec_body")
    IN /\ t.pc = "rec_body"
       /\ tasks' = [tasks EXCEPT ![p] = t2]
       /\ cache_stats' = IF exc = "TypeError"
                         THEN UpdateCacheStats(cache_stats, "miss")
                         ELSE cache_stats
       /\ error_count' = error_count + 1
       /\ rec_returns' = IF t2.pc = "done"
                         THEN Append(rec_returns, RecReturn(t2))
                         ELSE rec_returns
       /\ UNCHANGED <<active, vstore, now, next_oid, calls, env, embed_up,
                      index_mode, swept, cleanup_task, closing, history_limit,
                      pmodel, profile, delegate, pred_cache, rec_cache,
                      model_version, profile_cls, scored, planner>>


(***************************************************************************)
(* preference-engine models/preference.py : PreferenceModel                *)
(***************************************************************************)
\* confidence scores are counted in tenths, like the similarity scores;
\* NoConfidence is the argument confidence_score=None
NoConfidence == -100

\* a model as its field defaults leave it
NewPreferenceModel ==
    [preference_data |-> "empty", confidence_score |-> 5, version |-> 0,
     history |-> <<>>, last_updated |-> 0]

\* (variant: the entry is built from the state after the update)
HistoryEntryAfter(m, new_data) ==
    [data |-> new_data, confidence_score |-> m.confidence_score,
     version |-> m.version + 1]

\* PreferenceHistoryEntry(data=self.preference_data.copy(), ...): the entry
\* built from the model before anything is assigned
HistoryEntry(m, new_data) ==
    [data |-> m.preference_data, confidence_score |-> m.confidence_score,
     version |-> m.version]

\* the circular buffer: pop(0) when the list is full, then append
PushHistory(history, entry, limit) ==
    Append(IF Len(history) >= limit THEN Tail(history) ELSE history, entry)

\* max(MIN_CONFIDENCE_SCORE, min(confidence_score, MAX_CONFIDENCE_SCORE))
ClampConfidence(c) ==
    LET lo == IF c <= MAX_CONFIDENCE_SCORE THEN c ELSE MAX_CONFIDENCE_SCORE
    IN IF lo >= MIN_CONFIDENCE_SCORE THEN lo ELSE MIN_CONFIDENCE_SCORE

\* PreferenceModel.update_preference on model m with MAX_HISTORY_LENGTH = limit
UpdatePreference(m, new_data, confidence_score, limit, t) ==
    [m EXCEPT
       !.history = PushHistory(m.history, HistoryEntry(m, new_data), limit),
       !.preference_data = new_data,
       !.last_updated = t,
       !.version = m.version + 1,
       !.confidence_score = IF confidence_score = NoConfidence
                            THEN m.confidence_score
                            ELSE ClampConfidence(confidence_score)]

\* a caller updates the model.  pre is the list of the states the model was
\* in before each call (a history field, kept beside the model).
ModelUpdate(new_data, confidence_score) ==
    /\ pmodel' = [model |-> UpdatePreference(pmodel.model, new_data,
                                confidence_score, history_limit, now),
                  pre |-> Append(pmodel.pre,
                             [data |-> pmodel.model.preference_data,
                              confidence_score |-> pmodel.model.confidence_score,
                              version |-> pmodel.model.version])]
    /\ calls' = calls + 1
    /\ UNCHANGED <<active, vstore, now, tasks, next_oid, env, embed_up,
                   index_mode, swept, cleanup_task, closing, history_limit,
                   profile, delegate>>
    /\ UNCHANGED svcVars

(***************************************************************************)
(* preference-engine models/user_profile.py : UserProfile                  *)
(***************************************************************************)
\* UserProfile.__init__ for the supported types; analysis_runs counts the
\* entries into analyze_learning_patterns and last is the latest call and
\* how it ended (history fields)
NewUserProfile ==
    [preferences |-> [t \in SUPPORTED_PREFERENCE_TYPES |-> EmptyMap],
     learning_patterns |->
         [t \in SUPPORTED_PREFERENCE_TYPES |-> [consistency_score |-> Frac(0, 1)]],
     interaction_history |-> [t \in SUPPORTED_PREFERENCE_TYPES |-> <<>>],
     confidence_scores |-> [t \in SUPPORTED_PREFERENCE_TYPES |-> Frac(0, 1)],
     pattern_metrics |->
         [t \in SUPPORTED_PREFERENCE_TYPES |-> [sample_count |-> 0]],
     last_updated |-> 0,
     analysis_runs |-> [t \in SUPPORTED_PREFERENCE_TYPES |-> 0],
     last |-> [op |-> "none", type |-> "none", error |-> "none",
               analysed |-> FALSE]]

\* (variant: the share is taken over the whole history)
CalculatePatternConsistencyWhole(history, new_data) ==
    IF history = <<>> THEN Frac(1, 2)
    ELSE Frac(Cardinality({i \in 1..Len(history) : history[i].data = new_data}),
              Len(history))

\* _calculate_pattern_consistency: 0.5 without history, else the share of
\* the last 5 entries whose data equals new_data
CalculatePatternConsistency(history, new_data) ==
    IF history = <<>> THEN Frac(1, 2)
    ELSE LET n == Len(history)
             first == IF n > 5 THEN n - 4 ELSE 1
             same == {i \in first..n : history[i].data = new_data}
         IN Frac(Cardinality(same), n - first + 1)

\* confidence_score * pattern_weight + pattern_score * consistency_weight,
\* both weights 0.3, with the confidence in tenths
WeightedConfidence(confidence_score, pattern_score) ==
    Frac(3 * (confidence_score * pattern_score.den + 10 * pattern_score.num),
         100 * pattern_score.den)

\* how lines 100-121 of update_preference end.  With the repository's own
\* PreferenceModel the constructor's validator rejects a type outside
\* PREFERENCE_TYPES, and the result of its update_preference, a bool, cannot
\* be awaited.  "stub" is a stand-in model that accepts the type and whose
\* update_preference is a coroutine.
PersistError(preference_type) ==
    IF delegate = "stub" THEN "none"
    ELSE IF preference_type \notin PREFERENCE_TYPES THEN "ValidationError"
         ELSE "TypeError"

\* get_preference_history returns a dict of these five keys
PreferenceHistoryKeys ==
    {"preference_type", "history", "total_entries", "date_range", "metrics"}

\* _analyze_temporal_patterns(history) runs `for entry in history` over what
\* get_preference_history returned: the entries are the dict's keys, and
\* entry["timestamp"] on a str raises TypeError
AnalyzeTemporalPatternsError(keys) == IF keys = {} THEN "none" ELSE "TypeError"

\* analyze_learning_patterns for a supported type: entered, and ended by the
\* error above before learning_patterns and pattern_metrics are written;
\* without the error sample_count becomes len(history), the dict's length
AnalyzeLearningPatterns(pr, preference_type) ==
    LET entered == [pr EXCEPT !.analysis_runs[preference_type] = @ + 1]
    IN IF AnalyzeTemporalPatternsError(PreferenceHistoryKeys) # "none"
       THEN entered
       ELSE [entered EXCEPT
               !.pattern_metrics[preference_type].sample_count =
                   Cardinality(PreferenceHistoryKeys)]

\* the trigger of update_preference
AnalysisDue(pr, preference_type) ==
    pr.pattern_metrics[preference_type].sample_count >= MIN_SAMPLES

\* (variant: last_updated is stamped before the type is checked)
ProfileUpdateStampFirst(preference_type, preference_data, confidence_score) ==
    /\ calls' = calls + 1
    /\ profile' = [profile EXCEPT
                     !.last_updated = now,
                     !.last = [op |-> "update", type |-> preference_type,
                               error |-> IF preference_type
                                            \in SUPPORTED_PREFERENCE_TYPES
                                         THEN PersistError(preference_type)
                                         ELSE "ValueError",
                               analysed |-> FALSE]]
    /\ UNCHANGED <<active, vstore, now, tasks, next_oid, env, embed_up,
                   index_mode, swept, cleanup_task, closing, history_limit,
                   pmodel, delegate>>
    /\ UNCHANGED svcVars

\* UserProfile.update_preference(preference_type, preference_data,
\* confidence_score): one step, none of its awaits suspends
ProfileUpdate(preference_type, preference_data, confidence_score) ==
    LET ended(pr, err, an) ==
            [pr EXCEPT !.last = [op |-> "update", type |-> preference_type,
                                 error |-> err, analysed |-> an]]
    IN /\ calls' = calls + 1
       /\ IF preference_type \notin SUPPORTED_PREFERENCE_TYPES
          THEN profile' = ended(profile, "ValueError", FALSE)
          ELSE IF PersistError(preference_type) # "none"
          THEN profile' = ended(profile, PersistError(preference_type), FALSE)
          ELSE LET pattern_score ==
                       CalculatePatternConsistency(
                           profile.interaction_history[preference_type],
                           preference_data)
                   weighted == WeightedConfidence(confidence_score, pattern_score)
                   entry == [timestamp |-> now, data |-> preference_data,
                             confidence |-> weighted]
                   p1 == [profile EXCEPT
                            !.interaction_history[preference_type] =
                                Append(@, entry),
                            !.learning_patterns[preference_type].consistency_score =
                                pattern_score,
                            !.confidence_scores[preference_type] = weighted,
                            !.last_updated = now]
               IN IF AnalysisDue(p1, preference_type)
                  THEN profile' =
                         ended(AnalyzeLearningPatterns(p1, preference_type),
                               AnalyzeTemporalPatternsError(PreferenceHistoryKeys),
                               TRUE)
                  ELSE profile' = ended(p1, "none", FALSE)
       /\ UNCHANGED <<active, vstore, now, tasks, next_oid, env, embed_up,
                      index_mode, swept, cleanup_task, closing, history_limit,
                      pmodel, delegate>>
       /\ UNCHANGED svcVars

\* a caller (learn_preferences) invokes analyze_learning_patterns directly
CallAnalyze(preference_type) ==
    /\ calls' = calls + 1
    /\ profile' =
         IF preference_type \notin SUPPORTED_PREFERENCE_TYPES
         THEN [profile EXCEPT !.last = [op |-> "analyze", type |-> preference_type,
                                        error |-> "ValueError", analysed |-> FALSE]]
         ELSE [AnalyzeLearningPatterns(profile, preference_type) EXCEPT
                 !.last = [op |-> "analyze", type |-> preference_type,
                           error |-> AnalyzeTemporalPatternsError(
                                         PreferenceHistoryKeys),
                           analysed |-> TRUE]]
    /\ UNCHANGED <<active, vstore, now, tasks, next_oid, env, embed_up,
                   index_mode, swept, cleanup_task, closing, history_limit,
                   pmodel, delegate>>
    /\ UNCHANGED svcVars

\* a direct call of _calculate_pattern_consistency(preference_type,
\* new_data); interaction_history has no key for an unsupported type
CallConsistency(preference_type, new_data) ==
    /\ calls' = calls + 1
    /\ profile' =
         IF preference_type \notin DOMAIN profile.interaction_history
         THEN [profile EXCEPT !.last = [op |-> "consistency",
                                        type |-> preference_type,
                                        error |-> "KeyError",
                                        analysed |-> FALSE]]
         ELSE [profile EXCEPT !.last =
                 [op |-> "consistency", type |-> preference_type,
                  error |-> "none", analysed |-> FALSE, data |-> new_data,
                  score |-> CalculatePatternConsistency(
                               profile.interaction_history[preference_type],
                               new_data)]]
    /\ UNCHANGED <<active, vstore, now, tasks, next_oid, env, embed_up,
                   index_mode, swept, cleanup_task, closing, history_limit,
                   pmodel, delegate>>
    /\ UNCHANGED svcVars

\* the profile's PreferenceModel is replaced by the stand-in
PatchModel ==
    /\ delegate = "own"
    /\ delegate' = "stub"
    /\ UNCHANGED <<active, vstore, now, tasks, next_oid, calls, env, embed_up,
                   index_mode, swept, cleanup_task, closing, history_limit,
                   pmodel, profile>>
    /\ UNCHANGED svcVars


(***************************************************************************)
(* preference-engine services/learning_service.py                          *)
(***************************************************************************)
\* The prediction cache maps f"pref_pred_{user_id}:{preference_type}" to the
\* dict that was stored, a function from field names to values.  Timestamps
\* are the number of the call that took them, so that two computations
\* never carry the same one.  A version '1.0.0' is the number 1.
CacheKey(user_id, preference_type) == <<user_id, preference_type>>

\* the UserProfile class the services construct: the repository's, whose
\* new instance has no interactions, or a double whose instance holds
\* `stored` interactions and analyses them
OwnProfile == [kind |-> "own", stored |-> 0]

\* len(history['history']) of UserProfile(user_id).get_preference_history
HistoryLength == profile_cls.stored

\* range(0, len(history), batch_size): the number of batches
Batches(n, batch_size) == (n + batch_size - 1) \div batch_size

\* what analyze_learning_patterns returns for a batch (the double's result;
\* the repository's method raises, see AnalyzeLearningPatterns)
PatternUpdate(preference_type) ==
    [preference_type |-> preference_type, stability_score |-> Frac(1, 2)]

\* how lines 150-175 of learn_preferences end: get_preference_history
\* rejects an unsupported type, and the mean of no results divides by zero
LearnError(preference_type) ==
    IF profile_cls.kind = "own"
          /\ preference_type \notin SUPPORTED_PREFERENCE_TYPES
    THEN "ValueError"
    ELSE IF Batches(HistoryLength, BATCH_SIZE) = 0 THEN "ZeroDivisionError"
    ELSE "none"

\* learn_preferences(user_id, preference_type, learning_config) for a
\* non-empty user id and type: one step, none of its awaits suspends
LearnPreferences(p, user_id, preference_type) ==
    LET results == [i \in 1..Batches(HistoryLength, BATCH_SIZE) |->
                       PatternUpdate(preference_type)]
        err == LearnError(preference_type)
        key == CacheKey(user_id, preference_type)
        done == [IdleTask EXCEPT !.pc = "done", !.op = "learn",
                   !.user_id = user_id, !.rtype = preference_type,
                   !.attempt = 1, !.body_runs = 1]
    IN /\ Slot(p)
       /\ calls' = calls + 1
       /\ IF err # "none"
          THEN /\ tasks' = [tasks EXCEPT ![p] =
                     [done EXCEPT !.error = err, !.cause = err]]
               /\ UNCHANGED pred_cache
          ELSE LET avg_confidence ==
                       RMean([i \in 1..Len(results) |->
                                 results[i].stability_score])
               IN /\ pred_cache' = MapPut(pred_cache, key,
                        [patterns |-> results, confidence |-> avg_confidence,
                         timestamp |-> calls + 1, version |-> model_version])
                  /\ tasks' = [tasks EXCEPT ![p] =
                        [done EXCEPT !.cache_writes = 1, !.result =
                           <<[user_id |-> user_id,
                              preference_type |-> preference_type,
                              learning_results |-> results,
                              confidence_score |-> avg_confidence,
                              model_version |-> model_version,
                              timestamp |-> calls + 1]>>]]
       /\ UNCHANGED <<active, vstore, now, next_oid, env, embed_up, index_mode,
                      swept, cleanup_task, closing, history_limit, pmodel,
                      profile, delegate, rec_cache, cache_stats, error_count,
                      model_version, profile_cls, scored,
                      rec_returns, planner>>

\* user_profile.learning_patterns.get(preference_type, {}) of a new
\* UserProfile: the entry __init__ makes for a supported type, no entry for
\* another one; the double has counted patterns for every type
LearningPatternsOf(preference_type) ==
    IF profile_cls.kind = "own"
    THEN IF preference_type \in SUPPORTED_PREFERENCE_TYPES
         THEN [consistency_score |-> Frac(0, 1), temporal_patterns |-> EmptyMap,
               preference_stability |-> Frac(0, 1)]
         ELSE EmptyMap
    ELSE [consistency_score |-> Frac(1, 1),
          temporal_patterns |-> [evening |-> 6, morning |-> 2],
          preference_stability |-> Frac(1, 2)]

\* the predictions of lines 241-252: one for every temporal pattern counted
\* MIN_SAMPLES_REQUIRED times or more (listed here by decreasing count; the
\* code lists them in the dict's order)
RECURSIVE PredictionsOf(_, _)
PredictionsOf(temporal_patterns, stability) ==
    IF DOMAIN temporal_patterns = {} THEN <<>>
    ELSE LET k == CHOOSE x \in DOMAIN temporal_patterns :
                     \A y \in DOMAIN temporal_patterns :
                        x = y \/ temporal_patterns[x] >= temporal_patterns[y]
             rest == PredictionsOf(
                        Restrict(temporal_patterns,
                                 (DOMAIN temporal_patterns) \ {k}), stability)
         IN IF temporal_patterns[k] >= MIN_SAMPLES_REQUIRED
            THEN <<[pattern_type |-> k,
                    confidence |-> RMin(Frac(temporal_patterns[k],
                                             MIN_SAMPLES_REQUIRED), stability),
                    predicted_value |-> temporal_patterns[k]]>> \o rest
            ELSE rest

\* the response of lines 226-265 for the patterns lp
PredictionResponse(user_id, preference_type, lp, t) ==
    LET predictions == IF lp = EmptyMap THEN <<>>
                       ELSE PredictionsOf(lp.temporal_patterns,
                                          lp.preference_stability)
    IN [user_id |-> user_id, preference_type |-> preference_type,
        predictions |-> predictions,
        confidence_score |->
            IF predictions = <<>> THEN Frac(0, 1)
            ELSE RMean([i \in 1..Len(predictions) |->
                           predictions[i].confidence]),
        model_version |-> model_version, timestamp |-> t]

\* get_preference_predictions(user_id, preference_type, prediction_config):
\* one step, it awaits nothing.  cached_predictions['version'] raises
\* KeyError on an entry without that key.
GetPreferencePredictions(p, user_id, preference_type) ==
    LET key == CacheKey(user_id, preference_type)
        lp == LearningPatternsOf(preference_type)
        response == PredictionResponse(user_id, preference_type, lp, calls + 1)
        done == [IdleTask EXCEPT !.pc = "done", !.op = "pred",
                   !.user_id = user_id, !.rtype = preference_type,
                   !.attempt = 1, !.body_runs = 1, !.cache_reads = 1]
    IN /\ Slot(p)
       /\ calls' = calls + 1
       /\ IF key \in DOMAIN pred_cache
             /\ "version" \notin DOMAIN pred_cache[key]
          THEN /\ tasks' = [tasks EXCEPT ![p] =
                     [done EXCEPT !.error = "KeyError", !.cause = "KeyError"]]
               /\ UNCHANGED pred_cache
          ELSE IF key \in DOMAIN pred_cache
                  /\ pred_cache[key].version = model_version
          THEN /\ tasks' = [tasks EXCEPT ![p] =
                     [done EXCEPT !.result = <<pred_cache[key]>>]]
               /\ UNCHANGED pred_cache
          ELSE IF lp = EmptyMap
          THEN /\ tasks' = [tasks EXCEPT ![p] =
                     [done EXCEPT !.result = <<response>>]]
               /\ UNCHANGED pred_cache
          ELSE /\ tasks' = [tasks EXCEPT ![p] =
                     [done EXCEPT !.result = <<response>>, !.cache_writes = 1]]
               /\ pred_cache' = MapPut(pred_cache, key, response)
       /\ UNCHANGED <<active, vstore, now, next_oid, env, embed_up, index_mode,
                      swept, cleanup_task, closing, history_limit, pmodel,
                      profile, delegate, rec_cache, cache_stats, error_count,
                      model_version, profile_cls, scored,
                      rec_returns, planner>>

\* Redis drops an entry of the prediction cache when its TTL has passed
ExpirePrediction(key) ==
    /\ key \in DOMAIN pred_cache
    /\ pred_cache' = Restrict(pred_cache, (DOMAIN pred_cache) \ {key})
    /\ env' = env + 1
    /\ UNCHANGED <<active, vstore, now, tasks, next_oid, calls, embed_up,
                   index_mode, swept, cleanup_task, closing, history_limit,
                   pmodel, profile, delegate, rec_cache, cache_stats,
                   error_count, model_version, profile_cls, scored,
                   rec_returns, planner>>

\* the service is started again from a release with another MODEL_VERSION,
\* on the same Redis
Redeploy ==
    /\ model_version = MODEL_VERSION
    /\ model_version' = model_version + 1
    /\ \A p \in Procs : Free(p)
    /\ env' = env + 1
    /\ UNCHANGED <<active, vstore, now, tasks, next_oid, calls, embed_up,
                   index_mode, swept, cleanup_task, closing, history_limit,
                   pmodel, profile, delegate, pred_cache, rec_cache,
                   cache_stats, error_count, profile_cls, scored,
                   rec_returns, planner>>

\* UserProfile is replaced by the double, holding n stored interactions
PatchProfile(n) ==
    /\ profile_cls = OwnProfile
    /\ profile_cls' = [kind |-> "stub", stored |-> n]
    /\ UNCHANGED <<active, vstore, now, tasks, next_oid, calls, env, embed_up,
                   index_mode, swept, cleanup_task, closing, history_limit,
                   pmodel, profile, delegate, pred_cache, rec_cache,
                   cache_stats, error_count, model_version, scored,
                   rec_returns, planner>>

(***************************************************************************)
(* Inputs and specifications                                               *)
(***************************************************************************)
\* message i of the callers: its text and its timestamp
TextOf(i) == IF i % 2 = 1 THEN "hi" ELSE "hello"

TimestampOf(i) == 5 * (i - 1)

ValidMessages ==
    {[message_id |-> i, sender_id |-> s, content |-> TextOf(i),
      timestamp |-> TimestampOf(i)] : i \in MsgIds, s \in Senders}

SampleMessage ==
    [message_id |-> 1, sender_id |-> <<"a">>, content |-> "hi", timestamp |-> 0]

\* the sample message with one required field left out
MalformedMessages ==
    {Restrict(SampleMessage, RequiredFields \ {f}) : f \in RequiredFields}

Messages == ValidMessages \cup MalformedMessages

\* the n-th message of a long conversation: fresh id, alternating senders
StreamMessage(n) ==
    [message_id |-> n,
     sender_id |-> IF n % 2 = 1 THEN <<"a">> ELSE <<"b">>,
     content |-> IF n % 3 = 0 THEN "hello" ELSE "hi",
     timestamp |-> 5 * n]

\* the manager after __init__: no context, the cleanup task created
InitManager ==
    /\ active = EmptyMap
    /\ vstore = <<>>
    /\ now = 0
    /\ tasks = [p \in Procs |-> IdleTask]
    /\ next_oid = 1
    /\ calls = 0
    /\ env = 0
    /\ embed_up = TRUE
    /\ index_mode = "ok"
    /\ swept = [ages |-> EmptyMap, kept |-> {}]
    /\ cleanup_task = "sleeping"
    /\ closing = "no"

\* a new PreferenceModel and a new UserProfile, with
\* settings.PREFERENCE_HISTORY_LIMIT = limit
InitPreferences(limit) ==
    /\ history_limit = limit
    /\ pmodel = [model |-> NewPreferenceModel, pre |-> <<>>]
    /\ profile = NewUserProfile
    /\ delegate = "own"

\* the PlannerAgent after __init__: no lock, no retry count.  The
\* asyncio.Lock objects are numbered in the order they are created, and
\* locked is the set of the ones that are held.
InitPlanner ==
    planner = [chat_locks |-> EmptyMap, retry_counts |-> EmptyMap,
               locked |-> {}, next_lock |-> 1]

\* the services after __init__: empty caches, counters at 0, the
\* repository's UserProfile class; and the planner agent
InitServices ==
    /\ pred_cache = EmptyMap
    /\ rec_cache = EmptyMap
    /\ cache_stats = [hits |-> 0, misses |-> 0, resets |-> 0]
    /\ error_count = 0
    /\ model_version = MODEL_VERSION
    /\ profile_cls = OwnProfile
    /\ scored = [op |-> "none"]
    /\ rec_returns = <<>>
    /\ InitPlanner

Init ==
    /\ InitManager
    /\ InitPreferences(DEFAULT_PREFERENCE_HISTORY_LIMIT)
    /\ InitServices

\* Callers that await each call before the next one, with the periodic
\* cleanup, the clock and the collaborators' failures in between the steps
Next ==
    \/ \E c \in Chats, m \in Messages :
          calls + env < MaxEvents /\ CallAdd("p1", c, m)
    \/ AddBody("p1")
    \/ AddEmbed("p1")
    \/ AddStore("p1")
    \/ \E c \in Chats, qo \in RelInputs :
          calls + env < MaxEvents /\ CallRel("p1", c, qo[1], qo[2])
    \/ RelEmbed("p1")
    \/ RelSearch("p1")
    \/ \E c \in Chats : calls + env < MaxEvents /\ GetGroupDynamics("p1", c)
    \/ calls + env < MaxEvents /\ Sweep
    \/ \E d \in TickSteps : calls + env < MaxEvents /\ Tick(d)
    \/ \E up \in BOOLEAN : calls + env < MaxEvents /\ SetProvider(up)
    \/ \E mode \in {"ok", "false", "raise"} :
          calls + env < MaxEvents /\ SetIndex(mode)

Spec == Init /\ [][Next]_vars

\* one long conversation: a single caller adds StreamLen messages to "c1",
\* one after the other, while the collaborators may fail
NextStream ==
    \/ calls < StreamLen /\ CallAdd("p1", "c1", StreamMessage(calls + 1))
    \/ AddBody("p1")
    \/ AddEmbed("p1")
    \/ AddStore("p1")
    \/ \E up \in BOOLEAN : env < MaxFaults /\ SetProvider(up)
    \/ \E mode \in {"ok", "false", "raise"} :
          env < MaxFaults /\ SetIndex(mode)

SpecStream == Init /\ [][NextStream]_vars


\* Callers of both services that pass only invalid input: a message without
\* a required field, an empty query or no options, an unsupported
\* recommendation type
InvalidRelInputs == {<<"", EmptyMap>>, <<"hi", OptNone>>}

NextValidation ==
    \/ \E p \in Procs, c \in Chats, m \in MalformedMessages :
          calls < MaxEvents /\ CallAdd(p, c, m)
    \/ \E p \in Procs : AddBody(p)
    \/ \E p \in Procs, c \in Chats, qo \in InvalidRelInputs :
          calls < MaxEvents /\ CallRel(p, c, qo[1], qo[2])
    \/ \E p \in Procs : RelEmbed(p)
    \/ \E p \in Procs : calls < MaxEvents /\ CallRec(p, "u1", "unknown", FALSE)
    \/ \E p \in Procs : RecBody(p)

SpecValidation == Init /\ [][NextValidation]_vars

\* One long conversation that ends with a query: the caller adds messages
\* to "c1" one after the other, may be cancelled while a call is suspended,
\* and makes its last call a get_relevant_context
SessionOptions == {EmptyMap, [limit |-> StreamLen]}

NextSession ==
    \/ calls < StreamLen /\ CallAdd("p1", "c1", StreamMessage(calls + 1))
    \/ AddBody("p1")
    \/ AddEmbed("p1")
    \/ AddStore("p1")
    \/ env < MaxFaults /\ CancelAdd("p1")
    \/ \E o \in SessionOptions :
          /\ calls = StreamLen - 1
          /\ CallRel("p1", "c1", "hi", o)
    \/ RelEmbed("p1")
    \/ RelSearch("p1")

SpecSession == Init /\ [][NextSession]_vars

\* A manager that is shut down: calls for both conversations, the clock and
\* the cleanup task, and one close()
NextShutdown ==
    \/ \E c \in Chats : calls + env < MaxEvents /\ CallAdd("p1", c, SampleMessage)
    \/ AddBody("p1")
    \/ AddEmbed("p1")
    \/ AddStore("p1")
    \/ \E c \in Chats :
          calls + env < MaxEvents /\ CallRel("p1", c, "hi", EmptyMap)
    \/ RelEmbed("p1")
    \/ RelSearch("p1")
    \/ \E c \in Chats : calls + env < MaxEvents /\ GetGroupDynamics("p1", c)
    \/ calls + env < MaxEvents /\ Sweep
    \/ \E d \in TickSteps : calls + env < MaxEvents /\ Tick(d)
    \/ calls + env < MaxEvents /\ CloseCancel
    \/ CleanupCancelled
    \/ CloseFinish

SpecShutdown == Init /\ [][NextShutdown]_vars

\* One conversation among three senders, one of whose ids contains the
\* separator of the interaction key, and readers of its group dynamics
DynSenders == {<<"a">>, <<"a", "-", "a">>, <<"b">>}

DynMessages ==
    {[message_id |-> i, sender_id |-> s, content |-> TextOf(i),
      timestamp |-> TimestampOf(i)] : i \in 1..3, s \in DynSenders}

NextDynamics ==
    \/ \E m \in DynMessages : calls < MaxDynCalls /\ CallAdd("p1", "c1", m)
    \/ AddBody("p1")
    \/ AddEmbed("p1")
    \/ AddStore("p1")
    \/ calls < MaxDynCalls /\ GetGroupDynamics("p1", "c1")

SpecDynamics == Init /\ [][NextDynamics]_vars

\* Preference data and confidence scores of the callers: no score, a score
\* inside [0, 1] and one above it
PrefData == {"d1", "d2"}

Confidences == {NoConfidence, 3, 15}

\* the history limit is a setting between 1 and 1000: small ones here
InitPreference ==
    /\ InitManager
    /\ \E limit \in 1..MaxHistoryLimit : InitPreferences(limit)
    /\ InitServices

\* One PreferenceModel updated again and again
NextModel ==
    \E d \in PrefData, c \in Confidences :
        calls < MaxUpdates /\ ModelUpdate(d, c)

SpecModel == InitPreference /\ [][NextModel]_vars

\* One UserProfile: updates for two supported types and for "chat", which
\* the profile does not support, and direct pattern analyses
ProfileInputTypes == {"content", "interaction", "chat"}

NextProfile ==
    \/ \E t \in ProfileInputTypes, d \in PrefData :
          calls < MaxProfileCalls /\ ProfileUpdate(t, d, 8)
    \/ \E t \in ProfileInputTypes : calls < MaxProfileCalls /\ CallAnalyze(t)
    \/ PatchModel

SpecProfile == Init /\ [][NextProfile]_vars

\* A UserProfile constructed from stored fields (UserProfile(user_id,
\* **data)): interaction_history["content"] holds up to MaxStored entries,
\* last_updated is the time of construction
StoredHistories ==
    UNION {[1..n -> {[timestamp |-> 0, data |-> d, confidence |-> Frac(1, 2)] :
                        d \in PrefData}] : n \in 0..MaxStored}

InitStored ==
    /\ InitManager
    /\ history_limit = DEFAULT_PREFERENCE_HISTORY_LIMIT
    /\ pmodel = [model |-> NewPreferenceModel, pre |-> <<>>]
    /\ \E h \in StoredHistories :
          profile = [NewUserProfile EXCEPT !.interaction_history["content"] = h]
    /\ delegate = "own"
    /\ InitServices

\* updates and consistency scores on the stored profile, the clock moving
\* once
NextStored ==
    \/ \E t \in ProfileInputTypes, d \in PrefData :
          calls < MaxStoredCalls /\ ProfileUpdate(t, d, 8)
    \/ \E t \in ProfileInputTypes, d \in PrefData :
          calls < MaxStoredCalls /\ CallConsistency(t, d)
    \/ now = 0 /\ Tick(MAX_CONTEXT_AGE_HOURS)

SpecStored == InitStored /\ [][NextStored]_vars

\* The learning service: one user, a type the profile supports and one it
\* does not, the cache's expiry, a new release, and the double
LearnTypes == {"content", "chat"}

NextLearning ==
    \/ \E t \in LearnTypes :
          calls < MaxLearnCalls /\ LearnPreferences("p1", "u1", t)
    \/ \E t \in LearnTypes :
          calls < MaxLearnCalls /\ GetPreferencePredictions("p1", "u1", t)
    \/ \E t \in LearnTypes :
          env < MaxFaults /\ ExpirePrediction(CacheKey("u1", t))
    \/ Redeploy
    \/ \E n \in 0..1 : PatchProfile(n)

SpecLearning == Init /\ [][NextLearning]_vars

(***************************************************************************)
(* recommendation_service.py : calculate_recommendation_score              *)
(*                                                                         *)
(* Floats are quotients; NaN is the quotient with denominator 0.  Sums and *)
(* products are exact, so the last-digit rounding of 0.6, 0.3 and 0.1 is   *)
(* left out.  A dict is modelled by the list of its values, in order.      *)
(***************************************************************************)
NaN == Frac(0, 0)

IsNaN(x) == x.den = 0

RECURSIVE Gcd(_, _)
Gcd(a, b) == IF b = 0 THEN a ELSE Gcd(b, a % b)

\* the same quotient in lowest terms
Lowest(x) ==
    LET g == Gcd(IF x.num < 0 THEN 0 - x.num ELSE x.num, x.den)
    IN Frac(x.num \div g, x.den \div g)

FAdd(a, b) == IF IsNaN(a) \/ IsNaN(b) THEN NaN ELSE Lowest(RAdd(a, b))

FMul(a, b) == IF IsNaN(a) \/ IsNaN(b) THEN NaN ELSE Lowest(RMul(a, b))

\* a < b on floats: every comparison with NaN is false
FLt(a, b) == ~IsNaN(a) /\ ~IsNaN(b) /\ a.num * b.den < b.num * a.den

\* Python's min(a, b) and max(a, b): the first argument stays unless the
\* second compares smaller (larger)
PyMin(a, b) == IF FLt(b, a) THEN b ELSE a

PyMax(a, b) == IF FLt(a, b) THEN b ELSE a

\* values of a preference or item dict: a dict of numbers, a value that is
\* no dict of numbers (a string, a dict of strings), a validity period, a
\* list of users
Vec(values) == [kind |-> "dict", values |-> values]

Text == [kind |-> "text", values |-> <<>>]

Period(fields) == [kind |-> "period", fields |-> fields]

Users(users) == [kind |-> "list", users |-> users]

\* `not value`: the empty dict and the empty list
Falsy(v) ==
    \/ v.kind = "dict" /\ v.values = <<>>
    \/ v.kind = "list" /\ v.users = <<>>

RECURSIVE Dot(_, _)
Dot(u, v) == IF u = <<>> THEN 0 ELSE Head(u) * Head(v) + Dot(Tail(u), Tail(v))

\* np.linalg.norm for the vectors in use, whose length is a whole number
Norm(v) == CHOOSE n \in 0..MaxNorm : n * n = Dot(v, v)

\* _calculate_feature_match: 0.0 for an empty operand and for whatever
\* raises inside (no .values(), values that are no numbers, vectors of
\* different lengths); else dot / (norm * norm), which is NaN (0.0 / 0.0,
\* a warning, no exception) when one vector is all zeros
CalculateFeatureMatch(user_feature, item_feature) ==
    IF Falsy(user_feature) \/ Falsy(item_feature) THEN Frac(0, 1)
    ELSE IF user_feature.kind # "dict" \/ item_feature.kind # "dict"
         THEN Frac(0, 1)
    ELSE IF Len(user_feature.values) # Len(item_feature.values)
         THEN Frac(0, 1)
    ELSE LET d == Dot(user_feature.values, item_feature.values)
             n == Norm(user_feature.values) * Norm(item_feature.values)
         IN IF n = 0 THEN NaN ELSE Frac(d, n)

\* the sum of the feature matches over the item's keys S
RECURSIVE MatchSum(_, _, _)
MatchSum(user_preferences, item, S) ==
    IF S = {} THEN Frac(0, 1)
    ELSE LET k == CHOOSE x \in S : TRUE
         IN FAdd(CalculateFeatureMatch(MapGet(user_preferences, k, Vec(<<>>)),
                                       item[k]),
                 MatchSum(user_preferences, item, S \ {k}))

\* np.mean of the feature matches over recommendation_item.keys(): NaN for
\* an item without keys
PreferenceScore(user_preferences, item) ==
    LET t == MatchSum(user_preferences, item, DOMAIN item)
    IN IF DOMAIN item = {} \/ IsNaN(t) THEN NaN
       ELSE Frac(t.num, t.den * Cardinality(DOMAIN item))

\* a context timestamp: an ISO string that stands for `seconds`, or a string
\* datetime.fromisoformat rejects
Iso(seconds) == [iso |-> TRUE, seconds |-> seconds]

NotIso == [iso |-> FALSE, seconds |-> 0]

\* _calculate_context_relevance raises: a timestamp that is no ISO string
\* (ValueError), a valid_period without 'start' (KeyError)
ContextRaises(context, item) ==
    /\ "timestamp" \in DOMAIN context
    /\ "valid_period" \in DOMAIN item
    /\ \/ ~context.timestamp.iso
       \/ "start" \notin DOMAIN item.valid_period.fields

SeqToSet(q) == {q[i] : i \in 1..Len(q)}

\* _calculate_context_relevance when it does not raise: the mean of the
\* time score 1 / (1 + diff / 86400) and of the share of the active users
\* the item targets, of those that apply; 0.5 when none does
CalculateContextRelevance(context, item, group_dynamics) ==
    LET timed == "timestamp" \in DOMAIN context /\ "valid_period" \in DOMAIN item
        diff == LET d == context.timestamp.seconds
                         - item.valid_period.fields.start
                IN IF d < 0 THEN 0 - d ELSE d
        time_score == Lowest(Frac(DAY_SECONDS, DAY_SECONDS + diff))
        active_users == MapGet(group_dynamics, "active_users", <<>>)
        target_users == IF "target_users" \in DOMAIN item
                        THEN item.target_users.users ELSE <<>>
        group_score ==
            Frac(Cardinality(SeqToSet(target_users) \cap SeqToSet(active_users)),
                 Len(active_users))
        relevance_scores ==
            (IF timed THEN <<time_score>> ELSE <<>>)
            \o (IF active_users # <<>> THEN <<group_score>> ELSE <<>>)
    IN IF relevance_scores = <<>> THEN Frac(1, 2) ELSE RMean(relevance_scores)

\* the share of the keys two items have in common whose values are equal
Similarity(item, hist_item) ==
    LET common_keys == DOMAIN item \cap DOMAIN hist_item
    IN Frac(Cardinality({k \in common_keys : item[k] = hist_item[k]}),
            Cardinality(common_keys))

\* history[-10:]
LastTen(history) ==
    IF Len(history) <= 10 THEN history
    ELSE SubSeq(history, Len(history) - 9, Len(history))

\* _calculate_diversity_score: 1.0 without history; else 1 - the mean
\* similarity to the last 10 items of the history that share a key with the
\* item (1 - 0.0 when none does)
CalculateDiversityScore(item, history) ==
    IF history = <<>> THEN Frac(1, 1)
    ELSE LET recent == LastTen(history)
             similarity_scores ==
                 [i \in 1..Len(SelectSeq(recent,
                        LAMBDA h : DOMAIN item \cap DOMAIN h # {})) |->
                    Similarity(item, SelectSeq(recent,
                        LAMBDA h : DOMAIN item \cap DOMAIN h # {})[i])]
         IN RSub(Frac(1, 1),
                 IF similarity_scores = <<>> THEN Frac(0, 1)
                 ELSE RMean(similarity_scores))

\* calculate_recommendation_score: the three scores, their weighted sum and
\* max(0.0, min(1.0, sum)); 0.0 when anything raised
CalculateRecommendationScore(user_preferences, context_data, item, group_dynamics) ==
    IF ContextRaises(context_data, item)
    THEN [raised |-> TRUE, preference |-> Frac(0, 1), context |-> Frac(0, 1),
          diversity |-> Frac(0, 1), score |-> Frac(0, 1)]
    ELSE LET preference_score == PreferenceScore(user_preferences, item)
             context_score == CalculateContextRelevance(context_data, item,
                                                        group_dynamics)
             diversity_score ==
                 CalculateDiversityScore(item,
                     MapGet(user_preferences, "history", <<>>))
             final_score ==
                 FAdd(FAdd(FMul(preference_score, SCORE_WEIGHTS.preference),
                           FMul(context_score, SCORE_WEIGHTS.context)),
                      FMul(diversity_score, SCORE_WEIGHTS.diversity))
         IN [raised |-> FALSE, preference |-> preference_score,
             context |-> context_score, diversity |-> diversity_score,
             score |-> PyMax(Frac(0, 1), PyMin(Frac(1, 1), final_score))]

\* a direct call of calculate_recommendation_score
CallScore(user_preferences, context_data, item, group_dynamics) ==
    /\ scored' = [op |-> "score", user_preferences |-> user_preferences,
                  context_data |-> context_data, item |-> item,
                  group_dynamics |-> group_dynamics,
                  out |-> CalculateRecommendationScore(user_preferences,
                             context_data, item, group_dynamics)]
    /\ UNCHANGED <<active, vstore, now, tasks, next_oid, calls, env, embed_up,
                   index_mode, swept, cleanup_task, closing, history_limit,
                   pmodel, profile, delegate, pred_cache, rec_cache,
                   cache_stats, error_count, model_version, profile_cls,
                   rec_returns, planner>>

\* Inputs of the score: items with one feature vector, with nothing, with a
\* validity period and target users; preferences with and without a history
\* of earlier recommendations
PlainItem == [topic |-> Vec(<<1, 0>>)]

FullItem ==
    [topic |-> Vec(<<1, 0>>), valid_period |-> Period([start |-> 0]),
     target_users |-> Users(<<"u1">>)]

ScoreItems ==
    {EmptyMap, PlainItem, [topic |-> Vec(<<0, 1>>)],
     [topic |-> Vec(<<0 - 1, 0>>)], [topic |-> Vec(<<4, 3>>)],
     [topic |-> Vec(<<0, 0>>)], [topic |-> Vec(<<1>>)], [topic |-> Text],
     FullItem,
     [topic |-> Vec(<<1, 0>>), valid_period |-> Period(EmptyMap)]}

LongHistory == <<PlainItem>> \o [i \in 1..10 |-> [topic |-> Vec(<<0, 1>>)]]

ScorePreferences ==
    {EmptyMap, [topic |-> Vec(<<1, 0>>)], [topic |-> Vec(<<3, 4>>)],
     [topic |-> Vec(<<0, 0>>)], [topic |-> Text],
     [topic |-> Vec(<<1, 0>>), history |-> <<PlainItem>>],
     [topic |-> Vec(<<1, 0>>), history |-> LongHistory]}

ScoreContexts ==
    {EmptyMap, [timestamp |-> Iso(0)], [timestamp |-> Iso(DAY_SECONDS)],
     [timestamp |-> NotIso]}

ScoreDynamics ==
    {EmptyMap, [active_users |-> <<>>], [active_users |-> <<"u1">>],
     [active_users |-> <<"u1", "u2">>]}

NextScoring ==
    \E up \in ScorePreferences, c \in ScoreContexts, item \in ScoreItems,
       gd \in ScoreDynamics : CallScore(up, c, item, gd)

SpecScoring == Init /\ [][NextScoring]_vars

(***************************************************************************)
(* learning_service.py : retry, calculate_preference_similarity            *)
(***************************************************************************)
\* a pattern over the weights' keys: the values it holds for them and its
\* 'confidence'; {} is the pattern with no values
Pattern(values, confidence) == [values |-> values, confidence |-> confidence]

\* one run of calculate_preference_similarity raises: ValueError for an
\* empty pattern; a pattern of zeros is divided by its norm 0, and
\* cosine_similarity rejects the NaN it is given (ValueError)
SimilarityError(patterns) ==
    IF patterns.pattern1.values = <<>> \/ patterns.pattern2.values = <<>>
    THEN "ValueError"
    ELSE IF Norm(patterns.pattern1.values) = 0
            \/ Norm(patterns.pattern2.values) = 0
         THEN "ValueError"
    ELSE "none"

\* the value a run returns: the cosine of the two vectors times the smaller
\* confidence, cut to [0, 1]
SimilarityValue(patterns) ==
    LET u == patterns.pattern1.values
        v == patterns.pattern2.values
        similarity == Lowest(Frac(Dot(u, v), Norm(u) * Norm(v)))
        confidence_weight == PyMin(patterns.pattern1.confidence,
                                   patterns.pattern2.confidence)
    IN PyMax(Frac(0, 1), PyMin(Frac(1, 1), FMul(similarity, confidence_weight)))

\* a caller invokes calculate_preference_similarity(pattern1, pattern2,
\* weights)
CallSimilarity(p, patterns) ==
    /\ Slot(p)
    /\ tasks' = [tasks EXCEPT ![p] =
          [IdleTask EXCEPT !.pc = "sim_body", !.op = "sim",
                           !.patterns = patterns, !.attempt = 1]]
    /\ calls' = calls + 1
    /\ UNCHANGED <<active, vstore, now, next_oid, env, embed_up, index_mode,
                   swept>>
    /\ UNCHANGED restVars

\* the wrapper's except block: last_error is set, the warning is logged,
\* and `await asyncio.sleep(wait_time)` is evaluated.  The module does not
\* import asyncio, so the name lookup raises NameError, which leaves the
\* handler and the loop
SimilarityAfterFailure(task, exc) ==
    [task EXCEPT !.pc = "done", !.error = "NameError", !.cause = exc]

\* one attempt of the wrapper's loop
SimilarityAttempt(p) ==
    LET t == tasks[p]
        t1 == [t EXCEPT !.body_runs = t.body_runs + 1]
        exc == SimilarityError(t.patterns)
    IN /\ t.pc = "sim_body"
       /\ tasks' = [tasks EXCEPT ![p] =
             IF exc = "none"
             THEN [t1 EXCEPT !.pc = "done",
                             !.result = <<SimilarityValue(t.patterns)>>]
             ELSE SimilarityAfterFailure(t1, exc)]
       /\ UNCHANGED <<active, vstore, now, next_oid, calls, env, embed_up,
                      index_mode, swept>>
       /\ UNCHANGED restVars

\* Callers of calculate_preference_similarity: patterns with values, of
\* zeros, and empty ones
SimPatterns ==
    {Pattern(<<1, 0>>, Frac(1, 2)), Pattern(<<3, 4>>, Frac(9, 10)),
     Pattern(<<0, 0>>, Frac(1, 2)), Pattern(<<>>, Frac(1, 2))}

NextSimilarity ==
    \/ \E p \in Procs, a \in SimPatterns, b \in SimPatterns :
          /\ calls < MaxSimCalls
          /\ CallSimilarity(p, [pattern1 |-> a, pattern2 |-> b])
    \/ \E p \in Procs : SimilarityAttempt(p)

SpecSimilarity == Init /\ [][NextSimilarity]_vars

\* One conversation whose callers also send messages with a timestamp that
\* is no ISO string, while the clock advances
UnparsableMessages ==
    {[message_id |-> 2, sender_id |-> s, content |-> "hello",
      timestamp |-> 0 - 1] : s \in Senders}

NextTimestamps ==
    \/ \E m \in ValidMessages \cup UnparsableMessages :
          calls + env < MaxStampEvents /\ CallAdd("p1", "c1", m)
    \/ AddBody("p1")
    \/ AddEmbed("p1")
    \/ AddStore("p1")
    \/ \E d \in {1} : calls + env < MaxStampEvents /\ Tick(d)

SpecTimestamps == Init /\ [][NextTimestamps]_vars

\* A manager left running: calls for both conversations, the clock, sweeps
\* that raise, one close(), and the hourly sweep, which the event loop runs
\* for as long as the cleanup task sleeps
NextEviction ==
    \/ \E c \in Chats :
          calls + env < MaxEvictionEvents /\ CallAdd("p1", c, SampleMessage)
    \/ AddBody("p1")
    \/ AddEmbed("p1")
    \/ AddStore("p1")
    \/ \E d \in TickSteps : calls + env < MaxEvictionEvents /\ Tick(d)
    \/ calls + env < MaxEvictionEvents /\ SweepRaises
    \/ ScheduledSweep
    \/ calls + env < MaxEvictionEvents /\ CloseCancel
    \/ CleanupCancelled
    \/ CloseFinish

SpecEviction == Init /\ [][NextEviction]_vars /\ WF_vars(ScheduledSweep)

(***************************************************************************)
(* ai-service agents/planner_agent.py : PlannerAgent                       *)
(***************************************************************************)
\* what the agent's methods leave alone
agentRest ==
    <<active, vstore, now, next_oid, embed_up, index_mode, swept,
      cleanup_task, closing, history_limit, pmodel, profile, delegate,
      pred_cache, rec_cache, cache_stats, error_count, model_version,
      profile_cls, scored, rec_returns>>

\* a call is between `async with self.chat_locks[chat_id]` and the end of
\* that block
InSection(t) == t.op = "plan" /\ t.pc \in {"plan_analyze", "plan_suggest"}

\* a caller invokes async_process_message(message, chat_id): the lock of the
\* chat is created when the map has none, and looked up and acquired without
\* an await in between; acquire() of a lock that is held suspends the call
CallPlan(p, chat_id) ==
    LET known == chat_id \in DOMAIN planner.chat_locks
        lock == IF known THEN planner.chat_locks[chat_id] ELSE planner.next_lock
        free == lock \notin planner.locked
    IN /\ Slot(p)
       /\ planner' = [planner EXCEPT
             !.chat_locks = MapPut(@, chat_id, lock),
             !.next_lock = IF known THEN @ ELSE @ + 1,
             !.locked = IF free THEN @ \cup {lock} ELSE @]
       /\ tasks' = [tasks EXCEPT ![p] =
             [IdleTask EXCEPT !.pc = IF free THEN "plan_analyze" ELSE "plan_wait",
                !.op = "plan", !.chat_id = chat_id, !.lock = lock,
                !.attempt = 1, !.body_runs = 1]]
       /\ calls' = calls + 1
       /\ UNCHANGED env
       /\ UNCHANGED agentRest

\* a suspended acquire() returns once the lock object it waits for is free
PlanAcquire(p) ==
    LET t == tasks[p]
    IN /\ t.op = "plan"
       /\ t.pc = "plan_wait"
       /\ t.lock \notin planner.locked
       /\ planner' = [planner EXCEPT !.locked = @ \cup {t.lock}]
       /\ tasks' = [tasks EXCEPT ![p] = [t EXCEPT !.pc = "plan_analyze"]]
       /\ UNCHANGED <<calls, env>>
       /\ UNCHANGED agentRest

\* await analyze_activity_type(...) returns a confidence (in tenths); below
\* 0.7 the call returns its question, and leaving the block releases the
\* lock object the call acquired
PlanAnalyze(p, confidence) ==
    LET t == tasks[p]
    IN /\ t.op = "plan"
       /\ t.pc = "plan_analyze"
       /\ IF confidence < 7
          THEN /\ planner' = [planner EXCEPT !.locked = @ \ {t.lock}]
               /\ tasks' = [tasks EXCEPT ![p] =
                     [t EXCEPT !.pc = "done", !.result = <<"question">>]]
          ELSE /\ planner' = planner
               /\ tasks' = [tasks EXCEPT ![p] = [t EXCEPT !.pc = "plan_suggest"]]
       /\ UNCHANGED <<calls, env>>
       /\ UNCHANGED agentRest

\* await async_generate_planning_suggestion(...) under asyncio.timeout ends:
\* with the suggestion, with TimeoutError (counted in retry_counts; the
\* third one of a chat becomes RuntimeError), or with another exception,
\* which is raised again.  Each way out of the block releases the lock.
PlanSuggest(p, outcome) ==
    LET t == tasks[p]
        n == MapGet(planner.retry_counts, t.chat_id, 0) + 1
    IN /\ t.op = "plan"
       /\ t.pc = "plan_suggest"
       /\ planner' = [planner EXCEPT
             !.locked = @ \ {t.lock},
             !.retry_counts = IF outcome = "timeout"
                              THEN MapPut(@, t.chat_id, n) ELSE @]
       /\ tasks' = [tasks EXCEPT ![p] =
             IF outcome = "ok"
             THEN [t EXCEPT !.pc = "done", !.result = <<"suggestion">>]
             ELSE IF outcome = "timeout"
             THEN IF n >= PLANNER_MAX_RETRIES
                  THEN [t EXCEPT !.pc = "done", !.error = "RuntimeError",
                                 !.cause = "TimeoutError"]
                  ELSE [t EXCEPT !.pc = "done", !.result = <<"apology">>,
                                 !.cause = "TimeoutError"]
             ELSE [t EXCEPT !.pc = "done", !.error = "Exception",
                            !.cause = "Exception"]]
       /\ UNCHANGED <<calls, env>>
       /\ UNCHANGED agentRest

\* cleanup_resources: the map keeps the locks that are not held, and the
\* retry counts are cleared (the activity cache is not part of the model)
CleanupResources ==
    /\ planner' = [planner EXCEPT
          !.chat_locks =
              Restrict(planner.chat_locks,
                       {c \in DOMAIN planner.chat_locks :
                           planner.chat_locks[c] \notin planner.locked}),
          !.retry_counts = EmptyMap]
    /\ env' = env + 1
    /\ UNCHANGED <<tasks, calls>>
    /\ UNCHANGED agentRest

\* A planner agent serving two chats, with two calls at a time, and its
\* cleanup
PlanConfidences == {5, 9}

PlanOutcomes == {"ok", "timeout", "error"}

NextPlanner ==
    \/ \E p \in Procs, c \in Chats :
          calls + env < MaxPlanEvents /\ CallPlan(p, c)
    \/ \E p \in Procs : PlanAcquire(p)
    \/ \E p \in Procs, k \in PlanConfidences : PlanAnalyze(p, k)
    \/ \E p \in Procs, o \in PlanOutcomes : PlanSuggest(p, o)
    \/ calls + env < MaxPlanEvents /\ CleanupResources

SpecPlanner == Init /\ [][NextPlanner]_vars

\* Callers of get_recommendations for one user, with and without
\* refresh_cache; two calls may be in flight at once
RecTypes == {"content", "chat_group"}

NextRecommend ==
    \/ \E p \in Procs, t \in RecTypes, r \in BOOLEAN :
          calls < MaxRecCalls /\ CallRec(p, "u1", t, r)
    \/ \E p \in Procs : RecBody(p)

SpecRecommend == Init /\ [][NextRecommend]_vars

\* The cache statistics on their own: hits and misses are reported one
\* after the other, at most MaxHits hits between two resets
NextStats ==
    \/ /\ cache_stats.resets <= MaxResets
       /\ cache_stats.hits < MaxHits
       /\ CallUpdateCacheStats("hit")
    \/ /\ cache_stats.resets <= MaxResets
       /\ CallUpdateCacheStats("miss")

SpecStats == Init /\ [][NextStats]_vars

(***************************************************************************)
(* Properties                                                              *)
(***************************************************************************)
Min(a, b) == IF a <= b THEN a ELSE b

\* C1: short_term_memory holds exactly the min(N, 50) most recently added
\* messages of the N added so far, in insertion order, and never more than 50.
BoundedMemory ==
    \A c \in DOMAIN active :
        LET ctx == active[c]
            n == Len(ctx.log)
            k == Len(ctx.short_term_memory)
        IN /\ k = Min(n, 50)
           /\ k <= 50
           /\ \A i \in 1..k : ctx.short_term_memory[i] = ctx.log[n - k + i]

\* more than 50 messages were added to one conversation
BoundedMemoryWitness ==
    \E c \in DOMAIN active :
        /\ Len(active[c].log) > 50
        /\ Len(active[c].short_term_memory) = 50

\* C2: in every reachable state the keys of a context's embeddings are ids of
\* messages in its short_term_memory.
EmbeddingsPruned ==
    \A c \in DOMAIN active :
        DOMAIN active[c].embeddings \subseteq
            {active[c].short_term_memory[i]["message_id"] :
                i \in 1..Len(active[c].short_term_memory)}

\* C3: the step of add_message_to_context that rejects a malformed message
\* ends the call with the validation error and leaves the active contexts as
\* they were.
MalformedStep(p) ==
    /\ tasks[p].pc = "add_body"
    /\ ~(RequiredFields \subseteq DOMAIN tasks[p].message)
    /\ tasks'[p] # tasks[p]

MalformedLeavesStateUnmodified ==
    [][\A p \in Procs :
          MalformedStep(p) =>
              /\ tasks'[p].pc = "done"
              /\ tasks'[p].error = "ValueError"
              /\ active' = active]_vars

\* C4: a call of add_message_to_context whose vector store write failed with
\* ConnectionError ends with ConnectionError, and the conversation's memory
\* is as long as before the call.
StoreFailureRollsBack ==
    \A p \in Procs :
        LET t == tasks[p]
        IN (t.op = "add" /\ t.pc = "done" /\ t.cause = "ConnectionError") =>
              /\ t.error = "ConnectionError"
              /\ t.chat_id \in DOMAIN active =>
                    Len(active[t.chat_id].short_term_memory) = t.pre_len

\* C5: one invocation of add_message_to_context or get_relevant_context
\* attempts each external call at most 3 times.
AtMostThreeAttempts ==
    \A p \in Procs :
        tasks[p].op \in {"add", "rel"} =>
            /\ tasks[p].embed_calls <= 3
            /\ tasks[p].store_calls <= 3
            /\ tasks[p].search_calls <= 3

\* C6: a call with invalid input runs its body exactly once and ends with
\* the validation error.
InvalidInput(t) ==
    \/ t.op = "add" /\ ~(RequiredFields \subseteq DOMAIN t.message)
    \/ t.op = "rel" /\ (t.query = "" \/ t.options = OptNone)
    \/ t.op = "rec" /\ t.rtype \notin {"ai_agent", "chat_group", "content"}

ValidationNeverRetried ==
    \A p \in Procs :
        InvalidInput(tasks[p]) =>
            /\ tasks[p].body_runs <= 1
            /\ tasks[p].pc = "done" =>
                  /\ tasks[p].body_runs = 1
                  /\ tasks[p].error \in {"ValueError", "AttributeError"}

\* C7: after a sweep the map holds exactly the contexts that were present
\* before it and were idle for at most 24 hours.
SweepRemovesExactlyIdle ==
    swept.kept = {c \in DOMAIN swept.ages : swept.ages[c] <= 24}

\* a sweep removed a context and kept another
SweepWitness ==
    /\ swept.kept # {}
    /\ (DOMAIN swept.ages) \ swept.kept # {}

\* C8: is_stale() is true exactly when more than 24 hours have passed since
\* last_updated; at exactly 24 hours the context is not stale.
StaleExactlyAfter24h ==
    \A c \in DOMAIN active :
        LET age == now - active[c].last_updated
        IN /\ age >= 25 => IsStale(active[c], now)
           /\ age <= 24 => ~IsStale(active[c], now)

\* a context last updated exactly 24 hours ago
StaleBoundaryWitness ==
    \E c \in DOMAIN active :
        now - active[c].last_updated = 24 /\ ~IsStale(active[c], now)

\* C9 as claimed: a conversation id becomes a key of the map only in a step
\* of add_message_to_context for it, and the reads leave the key set as it is.
AddStepFor(p, c) ==
    /\ tasks[p].pc = "add_body"
    /\ tasks[p].chat_id = c
    /\ tasks'[p] # tasks[p]

ReadStepFor(p, c) ==
    \/ /\ tasks[p].pc = "rel_search"
       /\ tasks[p].chat_id = c
       /\ tasks'[p].pc = "done"
       /\ tasks'[p].error = "none"
    \/ /\ Slot(p)
       /\ calls' # calls
       /\ tasks'[p].op = "dyn"
       /\ tasks'[p].chat_id = c

CreatedOnlyByAdd ==
    [][\A c \in Chats :
          (c \notin DOMAIN active /\ c \in DOMAIN active') =>
              \E p \in Procs : AddStepFor(p, c)]_vars

\* C9 as amended: a conversation id becomes a key only in a step of
\* add_message_to_context, get_relevant_context or get_group_dynamics for
\* it; a read leaves the map as it is when the conversation has a context
\* and inserts a new empty context when it has none.
CreatedOnlyByGetOrCreate ==
    [][\A c \in Chats :
          /\ (c \notin DOMAIN active /\ c \in DOMAIN active') =>
                \E p \in Procs : AddStepFor(p, c) \/ ReadStepFor(p, c)
          /\ \A p \in Procs :
                ReadStepFor(p, c) =>
                    /\ c \in DOMAIN active'
                    /\ c \in DOMAIN active => active' = active
                    /\ c \notin DOMAIN active =>
                          /\ active'[c].short_term_memory = <<>>
                          /\ DOMAIN active'[c].embeddings = {}
                          /\ active'[c].last_updated = now
                          /\ \A d \in DOMAIN active : active'[d] = active[d]]_vars

\* the only call so far was a read, and it left an empty context behind
ReadCreatedWitness ==
    /\ calls = 1
    /\ \E p \in Procs :
          /\ tasks[p].op \in {"rel", "dyn"}
          /\ tasks[p].pc = "done"
          /\ tasks[p].chat_id \in DOMAIN active
          /\ active[tasks[p].chat_id].short_term_memory = <<>>

\* C10: get_relevant_context returns at most `limit` matches, each with a
\* score not below `threshold`; when every vector stored for the conversation
\* scores below the threshold the result is empty.
LimitOf(t) == IF "limit" \in DOMAIN t.options THEN t.options["limit"] ELSE 5

ThresholdOf(t) ==
    IF "threshold" \in DOMAIN t.options THEN t.options["threshold"] ELSE 7

RelReturnStep(p) ==
    /\ tasks[p].pc = "rel_search"
    /\ tasks'[p] # tasks[p]
    /\ index_mode = "ok"

WithoutScore(entry) == [k \in (DOMAIN entry) \ {"relevance_score"} |-> entry[k]]

HitsOf(t) ==
    SearchSimilar(vstore, Embed(t.query), t.chat_id, LimitOf(t), ThresholdOf(t))

ReturnedAreInMemory ==
    [][\A p \in Procs :
          RelReturnStep(p) =>
             LET c == tasks[p].chat_id
                 r == tasks'[p].result
                 hits == HitsOf(tasks[p])
             IN /\ tasks'[p].pc = "done"
                /\ tasks'[p].error = "none"
                /\ c \in DOMAIN active'
                /\ LET mem == active'[c].short_term_memory
                       present(h) == \E j \in 1..Len(mem) :
                                        mem[j]["message_id"] = h.message_id
                       kept == SelectSeq(hits, present)
                   IN /\ \A i \in 1..Len(r) :
                            \E j \in 1..Len(mem) : mem[j] = WithoutScore(r[i])
                      /\ Len(r) = Len(kept)
                      /\ \A i \in 1..Len(r) :
                            r[i]["message_id"] = kept[i].message_id]_vars

\* a query returned messages, and left out a match whose message the memory
\* had evicted
EvictedMatchDroppedWitness ==
    \E p \in Procs :
        LET t == tasks[p]
        IN /\ t.op = "rel" /\ t.pc = "done" /\ t.error = "none"
           /\ t.chat_id \in DOMAIN active
           /\ Len(active[t.chat_id].log) > 50
           /\ t.result # <<>>
           /\ Len(t.result) < Len(HitsOf(t))

\* C12: the list get_relevant_context returns is in non-increasing order of
\* relevance_score, and each entry's relevance_score is the score of the
\* stored vector of its message id in that conversation.
OrderedByScore ==
    \A p \in Procs :
        LET t == tasks[p]
        IN (t.op = "rel" /\ t.pc = "done" /\ t.error = "none") =>
              /\ \A i \in 1..(Len(t.result) - 1) :
                    t.result[i]["relevance_score"]
                        >= t.result[i + 1]["relevance_score"]
              /\ \A i \in 1..Len(t.result) :
                    \E k \in 1..Len(vstore) :
                       /\ vstore[k].chat_id = t.chat_id
                       /\ vstore[k].message_id = t.result[i]["message_id"]
                       /\ Score(Embed(t.query), vstore[k].embedding)
                             = t.result[i]["relevance_score"]

\* a result of two messages with different scores
TwoScoresWitness ==
    \E p \in Procs :
        LET t == tasks[p]
        IN /\ t.op = "rel" /\ t.pc = "done" /\ t.error = "none"
           /\ Len(t.result) = 2
           /\ t.result[1]["relevance_score"] > t.result[2]["relevance_score"]

\* C13: the step of add_message that accepts a message adds 1 to its
\* sender's participation count and leaves the other counts; for the first
\* message of the conversation it records no response time and no pair; for
\* a later one it appends timestamp - previous timestamp to the sender's
\* response times and adds 1 to the count of the pair (previous sender,
\* sender) and to no other pair's count.
AcceptStep(p) ==
    /\ tasks[p].pc = "add_body"
    /\ tasks'[p].pc = "add_embed"

PairCount(gd, x, y) == MapGet(gd.interaction_pairs, x \o <<"-">> \o y, 0)

DynamicsUpdatedPerMessage ==
    [][\A p \in Procs :
          AcceptStep(p) =>
             LET c == tasks[p].chat_id
                 m == tasks[p].message
                 s == m["sender_id"]
                 before == IF c \in DOMAIN active THEN active[c]
                           ELSE NewContext(0, 0)
                 old == before.group_dynamics
                 mem == before.short_term_memory
                 new == active'[c].group_dynamics
             IN /\ MapGet(new.participation_metrics, s, 0)
                      = MapGet(old.participation_metrics, s, 0) + 1
                /\ \A u \in DynSenders \ {s} :
                      MapGet(new.participation_metrics, u, 0)
                         = MapGet(old.participation_metrics, u, 0)
                /\ \A u \in DynSenders \ {s} :
                      MapGet(new.response_times, u, <<>>)
                         = MapGet(old.response_times, u, <<>>)
                /\ IF mem = <<>>
                   THEN /\ new.response_times = old.response_times
                        /\ new.interaction_pairs = old.interaction_pairs
                   ELSE LET prev == mem[Len(mem)]
                        IN /\ MapGet(new.response_times, s, <<>>)
                                 = Append(MapGet(old.response_times, s, <<>>),
                                          m["timestamp"] - prev["timestamp"])
                           /\ \A x \in DynSenders, y \in DynSenders :
                                 PairCount(new, x, y)
                                    = PairCount(old, x, y)
                                      + (IF x = prev["sender_id"] /\ y = s
                                         THEN 1 ELSE 0)]_vars

\* C14: get_group_dynamics reports active_users = the number of distinct
\* senders and total_messages = the sum of the participation counts; each
\* interaction strength is its pair's count over the total of the pair
\* counts, lies in [0, 1], and the strengths add up to 1 when a pair was
\* recorded; without one the strength map is empty.
GroupDynamicsReport ==
    \A p \in Procs :
        LET t == tasks[p]
        IN (t.op = "dyn" /\ t.pc = "done" /\ t.error = "none"
               /\ t.chat_id \in DOMAIN active) =>
              LET ctx == active[t.chat_id]
                  r == t.result[1]
                  pairs == ctx.group_dynamics.interaction_pairs
                  total == SumMap(pairs)
                  strength == r.interaction_strength
              IN /\ r.active_users
                       = Cardinality({ctx.log[i]["sender_id"] : i \in 1..Len(ctx.log)})
                 /\ r.total_messages
                       = SumMap(ctx.group_dynamics.participation_metrics)
                 /\ IF total = 0 THEN strength = EmptyMap
                    ELSE /\ DOMAIN strength = DOMAIN pairs
                         /\ \A k \in DOMAIN strength :
                               /\ strength[k].num = pairs[k]
                               /\ strength[k].den = total
                               /\ 0 <= strength[k].num
                               /\ strength[k].num <= strength[k].den
                         /\ SumMap([k \in DOMAIN strength |-> strength[k].num])
                               = total

\* a report over three messages of two senders with two different pairs
GroupDynamicsWitness ==
    \E p \in Procs :
        LET t == tasks[p]
        IN /\ t.op = "dyn" /\ t.pc = "done" /\ t.error = "none"
           /\ t.result[1].total_messages = 3
           /\ t.result[1].active_users = 2
           /\ Cardinality(DOMAIN t.result[1].interaction_strength) = 2

\* C15: once close() has returned the cleanup task has finished and no sweep
\* can run any more, and the step in which close() returns leaves the map of
\* active contexts empty.
CloseStopsEvictionAndClears ==
    /\ [](closing = "closed" => cleanup_task = "done")
    /\ [][cleanup_task # "sleeping" => ~Sweep]_vars
    /\ [][(closing # "closed" /\ closing' = "closed") => active' = EmptyMap]_vars

\* close() returned in a manager that held a context added within the hour
ClosedWitness ==
    /\ closing = "closed"
    /\ cleanup_task = "done"
    /\ active = EmptyMap
    /\ now = 0
    /\ \E p \in Procs :
          tasks[p].op = "add" /\ tasks[p].pc = "done" /\ tasks[p].error = "none"

\* C16: after an add_message_to_context call was cancelled at one of its
\* awaits, the context has at most 50 messages, they are the most recently
\* added ones in insertion order, and the keys of its embeddings are ids of
\* messages in its short_term_memory.
CancelLeavesContextConsistent ==
    \A p \in Procs :
        LET t == tasks[p]
        IN (t.op = "add" /\ t.pc = "done" /\ t.error = "CancelledError"
               /\ t.chat_id \in DOMAIN active) =>
              LET ctx == active[t.chat_id]
                  n == Len(ctx.log)
                  k == Len(ctx.short_term_memory)
              IN /\ k <= 50
                 /\ k <= n
                 /\ \A i \in 1..k : ctx.short_term_memory[i] = ctx.log[n - k + i]
                 /\ DOMAIN ctx.embeddings
                       \subseteq {ctx.short_term_memory[i]["message_id"] : i \in 1..k}

\* C17: a get_relevant_context whose search has returned, or a
\* get_group_dynamics, for a conversation that has no context at that moment
\* ends without error and returns what an empty context gives: no matches,
\* no participants, zero counts.
ReadOfMissingContextIsEmpty ==
    [][\A p \in Procs :
          /\ (/\ tasks[p].pc = "rel_search"
              /\ tasks'[p] # tasks[p]
              /\ index_mode # "raise"
              /\ tasks[p].chat_id \notin DOMAIN active) =>
                 /\ tasks'[p].pc = "done"
                 /\ tasks'[p].error = "none"
                 /\ tasks'[p].result = <<>>
          /\ (/\ tasks[p].pc \in {"idle", "done"}
              /\ calls' # calls
              /\ tasks'[p].op = "dyn"
              /\ tasks'[p].chat_id \notin DOMAIN active) =>
                 /\ tasks'[p].pc = "done"
                 /\ tasks'[p].error = "none"
                 /\ Len(tasks'[p].result) = 1
                 /\ tasks'[p].result[1].active_users = 0
                 /\ tasks'[p].result[1].total_messages = 0
                 /\ tasks'[p].result[1].participation_metrics = EmptyMap
                 /\ tasks'[p].result[1].avg_response_times = EmptyMap
                 /\ tasks'[p].result[1].interaction_strength = EmptyMap]_vars

\* a query that began while its conversation had a context and a stored
\* match, lost the context to a sweep, and returned nothing
SweptDuringReadWitness ==
    \E p \in Procs :
        LET t == tasks[p]
        IN /\ t.op = "rel" /\ t.pc = "done" /\ t.error = "none"
           /\ t.had_ctx
           /\ t.chat_id \in (DOMAIN swept.ages) \ swept.kept
           /\ HitsOf(t) # <<>>
           /\ t.result = <<>>
           /\ active[t.chat_id].log = <<>>

\* C18: after K update_preference calls on a new PreferenceModel with history
\* limit L, version = K, the history has min(K, L) entries, they are the
\* states the model was in before the most recent min(K, L) calls, oldest
\* first, and the entry of the i-th call carries version i - 1.
HistoryBoundAndOrder ==
    LET m == pmodel.model
        K == calls
        L == history_limit
        n == Len(m.history)
    IN /\ m.version = K
       /\ n = Min(K, L)
       /\ Len(pmodel.pre) = K
       /\ \A j \in 1..n :
             /\ m.history[j] = pmodel.pre[K - n + j]
             /\ m.history[j].version = K - n + j - 1

\* more calls than the limit, the second of them with another data and
\* another score than the first
HistoryBoundWitness ==
    /\ calls > history_limit
    /\ history_limit >= 2
    /\ Len(pmodel.model.history) = history_limit
    /\ pmodel.model.history[1].version = calls - history_limit
    /\ pmodel.model.history[1].data # pmodel.model.history[2].data
    /\ pmodel.model.history[1].confidence_score
          # pmodel.model.history[2].confidence_score

ProfileFields ==
    {"preferences", "interaction_history", "learning_patterns",
     "confidence_scores", "pattern_metrics", "last_updated"}

UnsupportedTypeRejected ==
    [][(/\ calls' # calls
        /\ profile'.last.op = "update"
        /\ profile'.last.type \notin SUPPORTED_PREFERENCE_TYPES) =>
           /\ profile'.last.error = "ValueError"
           /\ \A f \in ProfileFields : profile'[f] = profile[f]]_vars

\* an update for "chat" was rejected on a profile that holds interactions
\* and was last updated an earlier day
UnsupportedTypeWitness ==
    /\ profile.last.op = "update"
    /\ profile.last.type = "chat"
    /\ profile.last.error = "ValueError"
    /\ profile.interaction_history["content"] # <<>>
    /\ profile.last_updated < now

\* C22: the pattern consistency score of new data is 0.5 when the type's
\* interaction history is empty, and otherwise the number of entries among
\* the (up to) 5 most recent ones whose data equals the new data, divided by
\* the number of those entries: 1 when all of 5 equal it, 0 when none does,
\* and always between 0 and 1.
ConsistencyIsShareOfRecent ==
    (profile.last.op = "consistency" /\ profile.last.error = "none") =>
        LET h == profile.interaction_history[profile.last.type]
            n == Len(h)
            k == Min(5, n)
            equal == Cardinality({i \in (n - k + 1)..n :
                                     h[i].data = profile.last.data})
            score == profile.last.score
        IN /\ score.den > 0
           /\ 0 <= score.num
           /\ score.num <= score.den
           /\ IF n = 0 THEN 2 * score.num = score.den
              ELSE score.num * k = equal * score.den
           /\ (k = 5 /\ equal = 5) => score.num = score.den
           /\ (k = 5 /\ equal = 0) => score.num = 0

\* the score 1 for five recent entries equal to the new data, behind an
\* older entry that differs
ConsistencyWitness ==
    /\ profile.last.op = "consistency"
    /\ profile.last.error = "none"
    /\ Len(profile.interaction_history[profile.last.type]) > 5
    /\ profile.interaction_history[profile.last.type][1].data
          # profile.last.data
    /\ profile.last.score.num = profile.last.score.den

\* C23: every learn_preferences call for a user and a supported type, also
\* when the user has no interactions, ends without error and leaves under
\* the key of (user, type) a cache entry with the pattern results, the
\* average confidence, a timestamp and the service's model version.
LearnStep(p) ==
    /\ calls' # calls
    /\ tasks'[p].op = "learn"
    /\ tasks[p].pc \in {"idle", "done"}

LearnAlwaysCaches ==
    [][\A p \in Procs :
          (LearnStep(p) /\ tasks'[p].rtype \in SUPPORTED_PREFERENCE_TYPES) =>
             LET key == CacheKey(tasks'[p].user_id, tasks'[p].rtype)
             IN /\ tasks'[p].error = "none"
                /\ key \in DOMAIN pred_cache'
                /\ {"patterns", "confidence", "timestamp", "version"}
                      \subseteq DOMAIN pred_cache'[key]
                /\ pred_cache'[key].version = model_version
                /\ pred_cache'[key].timestamp = calls']_vars

\* C24: a get_preference_predictions call that finds a cache entry of the
\* service's current model version returns that entry and leaves the cache
\* as it is, so that a call following one that returned or stored the entry
\* returns the same result; a call that finds an entry of another version
\* does not return it, and the result it computes replaces the entry.
PredStep(p) ==
    /\ calls' # calls
    /\ tasks'[p].op = "pred"
    /\ tasks[p].pc \in {"idle", "done"}

\* the model version an entry was stored with
StoredVersion(entry) ==
    IF "version" \in DOMAIN entry THEN entry.version ELSE entry.model_version

PredictionsCacheFirst ==
    [][\A p \in Procs :
          PredStep(p) =>
             LET key == CacheKey(tasks'[p].user_id, tasks'[p].rtype)
             IN key \in DOMAIN pred_cache =>
                   IF StoredVersion(pred_cache[key]) = model_version
                   THEN /\ tasks'[p].error = "none"
                        /\ tasks'[p].result = <<pred_cache[key]>>
                        /\ pred_cache' = pred_cache
                        /\ (/\ tasks[p].op = "pred"
                            /\ tasks[p].error = "none"
                            /\ tasks[p].user_id = tasks'[p].user_id
                            /\ tasks[p].rtype = tasks'[p].rtype
                            /\ tasks[p].result = <<pred_cache[key]>>) =>
                               tasks'[p].result = tasks[p].result
                   ELSE /\ tasks'[p].error = "none"
                        /\ tasks'[p].result # <<pred_cache[key]>>
                        /\ key \in DOMAIN pred_cache'
                        /\ tasks'[p].result = <<pred_cache'[key]>>]_vars

SupportedReturn(r) == r.rtype \in SUPPORTED_RECOMMENDATION_TYPES

RankedList(list) ==
    /\ Len(list) <= MAX_RECOMMENDATIONS
    /\ \A i \in 1..Len(list) : RLeq(REC_MIN_CONFIDENCE_SCORE, list[i].score)
    /\ \A i \in 1..(Len(list) - 1) : RLeq(list[i + 1].score, list[i].score)

MissReturnsCachedRanking ==
    \A i \in 1..Len(rec_returns) :
        LET r == rec_returns[i]
            key == RecKey(r.user_id, r.rtype)
        IN SupportedReturn(r) =>
              /\ r.error = "none"
              /\ RankedList(r.result)
              /\ key \in DOMAIN rec_cache
              /\ rec_cache[key].recommendations = r.result
              /\ r.cache_writes = 1
              /\ ~r.refresh_cache => r.cache_reads = 1

\* C27: of two get_recommendations calls for the same user and type without
\* refresh_cache, the second started after the first ended and nothing
\* written in between, the second generates nothing and returns what the
\* first returned.
RepeatServedFromCache ==
    \A i \in 1..Len(rec_returns) : \A j \in 1..Len(rec_returns) :
        LET a == rec_returns[i]
            b == rec_returns[j]
        IN (/\ j = i + 1
            /\ b.seen >= i
            /\ SupportedReturn(a)
            /\ a.user_id = b.user_id /\ a.rtype = b.rtype
            /\ ~a.refresh_cache /\ ~b.refresh_cache) =>
              /\ b.error = "none"
              /\ b.result = a.result
              /\ b.cache_writes = 0

\* C30 (as stated): the observation that brings hits + misses to 10,000
\* clears both counters.
StatsTotal(stats) == stats.hits + stats.misses

StatsClearedAtTenThousand ==
    [][(/\ cache_stats' # cache_stats
        /\ StatsTotal(cache_stats) = STATS_RESET_AFTER - 1) =>
          (cache_stats'.hits = 0 /\ cache_stats'.misses = 0)]_vars

\* C30 (amended): the counters are cleared by the observation that would
\* bring hits + misses above 10,000, the 10,001st since the last reset;
\* every other observation adds one to their sum, which therefore reaches
\* 10,000 and never exceeds it.
StatsClearedPastTenThousand ==
    [][cache_stats' # cache_stats =>
          IF StatsTotal(cache_stats) = STATS_RESET_AFTER
          THEN /\ cache_stats'.hits = 0 /\ cache_stats'.misses = 0
               /\ cache_stats'.resets = cache_stats.resets + 1
          ELSE /\ StatsTotal(cache_stats') = StatsTotal(cache_stats) + 1
               /\ StatsTotal(cache_stats') <= STATS_RESET_AFTER
               /\ cache_stats'.resets = cache_stats.resets]_vars

StatsResetWitness ==
    /\ cache_stats.resets = 1
    /\ cache_stats.hits = 0 /\ cache_stats.misses = 0

\* C28: calculate_recommendation_score returns a value between 0.0 and 1.0:
\* the weighted sum 0.6 * preference + 0.3 * context + 0.1 * diversity of
\* three numbers, cut to that interval; 0.0 when scoring raised.
InUnitInterval(x) == ~IsNaN(x) /\ RLeq(Frac(0, 1), x) /\ RLeq(x, Frac(1, 1))

Blend(preference, context, diversity) ==
    RAdd(RAdd(RMul(Frac(6, 10), preference), RMul(Frac(3, 10), context)),
         RMul(Frac(1, 10), diversity))

ScoreIsClampedBlend ==
    scored.op = "score" =>
        LET out == scored.out
        IN /\ InUnitInterval(out.score)
           /\ IF out.raised THEN REq(out.score, Frac(0, 1))
              ELSE /\ ~IsNaN(out.preference)
                   /\ ~IsNaN(out.context)
                   /\ ~IsNaN(out.diversity)
                   /\ REq(out.score,
                          RMax(Frac(0, 1),
                               RMin(Frac(1, 1),
                                    Blend(out.preference, out.context,
                                          out.diversity))))

\* C29: with user_preferences = {} the score is 0.0, whatever the item, the
\* context and the group dynamics are.
EmptyPreferencesScoreZero ==
    (scored.op = "score" /\ scored.user_preferences = EmptyMap) =>
        REq(scored.out.score, Frac(0, 1))

\* C31: a call of calculate_preference_similarity makes at most 3 attempts;
\* an attempt that succeeds ends the call with its result, and a call that
\* fails has made 3 attempts and raises the exception of the last one.
SimilarityRetriedThreeTimes ==
    \A p \in Procs :
        tasks[p].op = "sim" =>
            /\ tasks[p].body_runs <= MAX_RETRY_ATTEMPTS
            /\ (tasks[p].pc = "done" /\ tasks[p].error = "none") =>
                  Len(tasks[p].result) = 1
            /\ (tasks[p].pc = "done" /\ tasks[p].error # "none") =>
                  /\ tasks[p].body_runs = MAX_RETRY_ATTEMPTS
                  /\ tasks[p].error = tasks[p].cause

\* C32: a cleanup pass that evicts contexts also cleans the vector store:
\* after the pass the index holds no vector of an evicted conversation.
SweepCleansVectors ==
    [][(swept' # swept /\ DOMAIN active' # DOMAIN active) =>
          \A c \in (DOMAIN active) \ (DOMAIN active') :
              ChatRows(vstore', c) = {}]_vars

\* C33: every step that changes a context's short_term_memory, embeddings
\* or group_dynamics leaves its last_updated at the current time.
ContextChanged(c) ==
    \/ c \notin DOMAIN active
    \/ active'[c].short_term_memory # active[c].short_term_memory
    \/ active'[c].embeddings # active[c].embeddings
    \/ active'[c].group_dynamics # active[c].group_dynamics

MutationRefreshesLastUpdated ==
    [][\A c \in DOMAIN active' :
          ContextChanged(c) => active'[c].last_updated = now']_vars

\* C34: a get_relevant_context call whose options are missing or lack a
\* key searches with limit 5 and threshold 0.7 and returns what a call with
\* these options returns; when the search fails in such a call, the call
\* ends with the search's own exception.
LacksOption(t) ==
    t.op = "rel" /\ ({"limit", "threshold"} \ DOMAIN t.options # {})

DefaultsWhenOptionsMissing ==
    [][\A p \in Procs :
          LET t == tasks[p]
              t2 == tasks'[p]
          IN (LacksOption(t) /\ t2 # t) =>
                /\ (t.pc = "rel_embed" /\ ~EmbedAttemptFails(t.query)) =>
                      t2.pc = "rel_search"
                /\ (t.pc = "rel_search" /\ index_mode = "raise") =>
                      (t2.pc = "done" /\ t2.error = "TimeoutError")
                /\ (t.pc = "rel_search" /\ index_mode = "ok") =>
                      /\ t2.pc = "done" /\ t2.error = "none"
                      /\ t2.result =
                            JoinMatches(
                                SearchSimilar(vstore, Embed(t.query), t.chat_id,
                                    IF "limit" \in DOMAIN t.options
                                    THEN t.options.limit
                                    ELSE MAX_RELEVANT_CONTEXTS,
                                    IF "threshold" \in DOMAIN t.options
                                    THEN t.options.threshold
                                    ELSE SIMILARITY_THRESHOLD),
                                active'[t.chat_id].short_term_memory)]_vars

\* C35: an update_preference call of UserProfile for a type of
\* SUPPORTED_PREFERENCE_TYPES, made with the repository's PreferenceModel,
\* passes the PreferenceModel step (the type is one the PreferenceModel
\* accepts, the call ends without error) and appends exactly one entry to
\* interaction_history of that type.
SupportedUpdatePersists ==
    [][(/\ calls' # calls
        /\ delegate = "own"
        /\ profile'.last.op = "update"
        /\ profile'.last.type \in SUPPORTED_PREFERENCE_TYPES) =>
           LET t == profile'.last.type
           IN /\ t \in PREFERENCE_TYPES
              /\ PersistError(t) = "none"
              /\ profile'.last.error = "none"
              /\ Len(profile'.interaction_history[t])
                    = Len(profile.interaction_history[t]) + 1]_vars

\* C36: while the manager is not closed the cleanup task is in its loop, a
\* sweep that raised included, and a context that is idle for more than
\* MAX_CONTEXT_AGE_HOURS is eventually out of the active-context map, unless
\* it is used again or the manager is closed first.
IdleTooLong(c) == c \in DOMAIN active /\ IsStale(active[c], now)

RetryAppendsNothing ==
    [][\A p \in Procs :
          LET t == tasks[p]
          IN (/\ t.op = "add"
              /\ t.pc = "add_body"
              /\ tasks'[p] # t
              /\ t.body_runs >= 1
              /\ HasRequiredFields(t.message)
              /\ Holds(t)) =>
                 /\ active'[t.chat_id].short_term_memory
                       = active[t.chat_id].short_term_memory
                 /\ active'[t.chat_id].group_dynamics.participation_metrics
                       = active[t.chat_id].group_dynamics.participation_metrics]_vars

\* C38: in every context the participation counts add up to the number of
\* messages add_message accepted, and the interaction-pair counts add up to
\* the number of recorded response times, which is that number of messages
\* minus 1 (0 while there is none), whatever the FIFO has evicted.
ResponseTimeCount(gd) ==
    SumMap([s \in DOMAIN gd.response_times |-> Len(gd.response_times[s])])

DynamicsTotalsMatchAccepted ==
    \A c \in DOMAIN active :
        LET gd == active[c].group_dynamics
            accepted == Len(active[c].log)
        IN /\ SumMap(gd.participation_metrics) = accepted
           /\ SumMap(gd.interaction_pairs) = ResponseTimeCount(gd)
           /\ ResponseTimeCount(gd) = IF accepted = 0 THEN 0 ELSE accepted - 1

\* C39: once add_message_to_context has returned without error, the vector
\* index holds a row for the message id under the conversation id, and the
\* context the call worked on holds an embedding for that id while the
\* message is in its memory.
ReturnMeansStored ==
    \A p \in Procs :
        LET t == tasks[p]
        IN (t.op = "add" /\ t.pc = "done" /\ t.error = "none") =>
              /\ \E k \in 1..Len(vstore) :
                    /\ vstore[k].chat_id = t.chat_id
                    /\ vstore[k].message_id = t.message["message_id"]
              /\ (Holds(t) /\ t.message["message_id"]
                                 \in MessageIds(active[t.chat_id].short_term_memory))
                    => t.message["message_id"] \in DOMAIN active[t.chat_id].embeddings

\* C40: for every chat at most one async_process_message call is inside the
\* locked section, also after cleanup_resources ran while a call held the
\* chat's lock.
OneCallPerChatInSection ==
    \A c \in Chats :
        Cardinality({p \in Procs : InSection(tasks[p]) /\ tasks[p].chat_id = c}) <= 1

=============================================================================
